---------------------------- MODULE Spec2Model ----------------------------
(***************************************************************************)
(* A model of clox: the single-pass compiler (src/src/compiler.c), the     *)
(* chunk and constant pool (src/src/chunk.c, src/src/value.c), the hash    *)
(* table (src/src/table.c) and the stack VM (src/src/vm.c).                *)
(*                                                                         *)
(* The scanner (scanner.c) and the object allocator (object.c) are not     *)
(* among the source files: the scanner is modelled as a pull-based token   *)
(* source over a token sequence, and copyString, takeString, newFunction   *)
(* and newNative are modelled from the specification's data model.         *)
(***************************************************************************)
EXTENDS Integers, Sequences, FiniteSets, TLC

VARIABLES
  stack,          \* the memory vm.stack points to, index 0 .. stackCapacity-1
  stackBase,      \* vm.stack, an address (0 is the null pointer)
  stackTop,       \* vm.stackTop, an address
  stackCapacity,  \* vm.stackCapacity
  frames,         \* vm.frames[0 .. frameCount-1]
  globals,        \* vm.globals
  functions,      \* the ObjFunction objects of vm.objects, by allocation order
  mode,           \* where the process is: "idle", "running", "exited", "fault"
  result,         \* what the last interpret call returned
  out,            \* stdout of the last interpret call (OP_PRINT)
  err,            \* stderr of the last interpret call
  source,         \* the source text handed to the last interpret call
  calls,          \* the number of interpret calls made
  strings,        \* vm.strings, the intern table
  objects,        \* the ObjString objects of vm.objects, by allocation order
  compiling       \* the compiler's state while compile runs, else NULL

vars == <<stack, stackBase, stackTop, stackCapacity, frames, globals,
          functions, mode, result, out, err, source, calls, strings,
          objects, compiling>>

\* ---------------------------------------------------------------- bounds

MaxCalls == 2

\* The most string objects SpecStrings allocates
MaxObjects == 5

\* The most statements SpecJumps adds to its long loop body
MaxStatements == 6

\* ------------------------------------------------------- program constants

UINT8_COUNT == 256
UINT16_MAX == 65535
FRAMES_MAX == 64
STACK_MAX == FRAMES_MAX * UINT8_COUNT

OP_RETURN == 100
OP_CONSTANT == 101
OP_CONSTANT_LONG == 102
OP_ADD == 103
OP_SUBTRACT == 104
OP_MULTIPLY == 105
OP_DIVIDE == 106
OP_NOT == 107
OP_NEGATE == 108
OP_PRINT == 109
OP_NIL == 110
OP_TRUE == 111
OP_FALSE == 112
OP_POP == 113
OP_GET_GLOBAL == 114
OP_SET_GLOBAL == 115
OP_DEFINE_GLOBAL == 116
OP_EQUAL == 117
OP_GREATER == 118
OP_LESS == 119
\* Used by compiler.c, vm.c and debug.c but absent from the enum of
\* include/chunk.h: numbered here as further members of that enum.
OP_GET_LOCAL == 120
OP_SET_LOCAL == 121
OP_JUMP_IF_FALSE == 122
OP_JUMP == 123
OP_LOOP == 124
OP_CALL == 125
OP_CLOSURE == 126
OP_GET_UPVALUE == 127
OP_SET_UPVALUE == 128
OP_CLOSE_UPVALUE == 129

GROW_CAPACITY(capacity) == IF capacity < 8 THEN 8 ELSE capacity * 2

SHRINK_CAPACITY(capacity) == IF capacity > 8 THEN capacity \div 2 ELSE 8

\* ------------------------------------------------------------------ values

NULL == [kind |-> "NULL"]

NIL_VAL == [type |-> "VAL_NIL"]
BOOL_VAL(b) == [type |-> "VAL_BOOL", boolean |-> b]
NUMBER_VAL(n) == [type |-> "VAL_NUMBER", number |-> n]
OBJ_VAL(object) == [type |-> "VAL_OBJ", obj |-> object]

\* Memory of the stack that was allocated and never written.
UNINIT == [type |-> "UNINIT"]

IS_BOOL(value) == value.type = "VAL_BOOL"
IS_NIL(value) == value.type = "VAL_NIL"
IS_NUMBER(value) == value.type = "VAL_NUMBER"
IS_OBJ(value) == value.type = "VAL_OBJ"
isObjType(value, kind) == IS_OBJ(value) /\ value.obj.kind = kind
IS_STRING(value) == isObjType(value, "OBJ_STRING")

\* ----------------------------------------------------------------- strings
\* A character is a one-character string; Ascii gives its byte.

Ascii(ch) ==
  CASE ch = "a" -> 97 [] ch = "b" -> 98 [] ch = "c" -> 99 [] ch = "f" -> 102
    [] ch = "g" -> 103 [] ch = "i" -> 105 [] ch = "k" -> 107 [] ch = "l" -> 108
    [] ch = "m" -> 109 [] ch = "n" -> 110 [] ch = "o" -> 111 [] ch = "x" -> 120
    [] ch = "y" -> 121 [] ch = "r" -> 114 [] ch = "s" -> 115
    [] ch = "X" -> 88 [] ch = "0" -> 48 [] ch = "1" -> 49 [] ch = "2" -> 50
    [] ch = "3" -> 51 [] ch = "4" -> 52 [] ch = "5" -> 53 [] ch = "6" -> 54
    [] ch = "7" -> 55 [] ch = "8" -> 56 [] ch = "9" -> 57 [] ch = "\"" -> 34
    [] OTHER -> 63

\* a ^ b on uint8_t, bit by bit
Xor8(a, b) ==
  LET Bit(i) == (((a \div 2^i) + (b \div 2^i)) % 2) * 2^i
  IN Bit(0) + Bit(1) + Bit(2) + Bit(3) + Bit(4) + Bit(5) + Bit(6) + Bit(7)

\* One round of 32-bit FNV-1a on a hash kept as two 16-bit halves:
\* hash ^= byte; hash *= 16777619 (= 2^24 + 403), modulo 2^32.
FnvStep(h, byte) ==
  LET lo == (h.lo - (h.lo % 256)) + Xor8(h.lo % 256, byte)
      p  == lo * 403
  IN [lo |-> p % 65536,
      hi |-> (h.hi * 403 + (p \div 65536) + (lo % 256) * 256) % 65536]

RECURSIVE hashFrom(_, _, _)
hashFrom(chars, i, h) ==
  IF i > Len(chars) THEN h
  ELSE hashFrom(chars, i + 1, FnvStep(h, Ascii(chars[i])))

\* 2166136261 = 33052 * 65536 + 40389
hashString(chars) == hashFrom(chars, 1, [hi |-> 33052, lo |-> 40389])

\* Strings are interned: the object is determined by its characters.
copyString(chars) ==
  [kind |-> "OBJ_STRING", chars |-> chars, hash |-> hashString(chars)]

takeString(chars) == copyString(chars)

newNative(function) == [kind |-> "OBJ_NATIVE", function |-> function]

\* hash % capacity for a hash kept as two halves
HashMod(hash, capacity) ==
  ((hash.hi % capacity) * (65536 % capacity) + hash.lo) % capacity

\* ------------------------------------------------------------------ table

EmptyEntry == [key |-> NULL, value |-> NIL_VAL]

\* initTable
\* Entries of a table are indexed 0 .. capacity-1.
NewEntries(capacity) == [i \in 0 .. capacity - 1 |-> EmptyEntry]

initTable == [count |-> 0, capacity |-> 0, entries |-> NewEntries(0)]

\* The probe loop of findEntry: the index of the entry found, or -1 when the
\* loop has visited every slot without meeting the key or a never-used slot
\* (the C loop then probes forever).
RECURSIVE findEntryFrom(_, _, _, _, _, _)
findEntryFrom(entries, capacity, key, index, tombstone, probes) ==
  IF probes = capacity THEN -1
  ELSE LET entry == entries[index]
           next == (index + 1) % capacity
       IN IF entry.key = NULL
          THEN IF IS_NIL(entry.value)
               THEN (IF tombstone # -1 THEN tombstone ELSE index)
               ELSE findEntryFrom(entries, capacity, key, next,
                                  IF tombstone = -1 THEN index ELSE tombstone,
                                  probes + 1)
          ELSE IF entry.key = key THEN index
          ELSE findEntryFrom(entries, capacity, key, next, tombstone,
                             probes + 1)

findEntry(entries, capacity, key) ==
  findEntryFrom(entries, capacity, key, HashMod(key.hash, capacity), -1, 0)

\* tableGet: [found, value, hang]
tableGet(t, key) ==
  LET At(i) ==
        IF i = -1 THEN [found |-> FALSE, value |-> NIL_VAL, hang |-> TRUE]
        ELSE IF t.entries[i].key = NULL
             THEN [found |-> FALSE, value |-> NIL_VAL, hang |-> FALSE]
             ELSE [found |-> TRUE, value |-> t.entries[i].value,
                   hang |-> FALSE]
  IN IF t.count = 0
     THEN [found |-> FALSE, value |-> NIL_VAL, hang |-> FALSE]
     ELSE At(findEntry(t.entries, t.capacity, key))

\* The copy loop of adjustCapacity, old entries in index order.
RECURSIVE adjustCopy(_, _, _, _, _)
adjustCopy(old, oldCapacity, i, entries, capacity) ==
  LET Into(dest) ==
        IF dest = -1 THEN [entries |-> entries, count |-> 0, hang |-> TRUE]
        ELSE [adjustCopy(old, oldCapacity, i + 1,
                         [entries EXCEPT ![dest] = old[i]], capacity)
                EXCEPT !.count = @ + 1]
  IN IF i >= oldCapacity
     THEN [entries |-> entries, count |-> 0, hang |-> FALSE]
     ELSE IF old[i].key = NULL
          THEN adjustCopy(old, oldCapacity, i + 1, entries, capacity)
          ELSE Into(findEntry(entries, capacity, old[i].key))

\* adjustCapacity: [table, hang]
adjustCapacity(t, capacity) ==
  LET Copied(r) ==
        [table |-> [count |-> r.count, capacity |-> capacity,
                    entries |-> r.entries],
         hang |-> r.hang]
  IN Copied(adjustCopy(t.entries, t.capacity, 0, NewEntries(capacity),
                       capacity))

\* tableSet: [table, isNewKey, hang].  The local `capacity` of tableSet is read
\* in its own initialiser (table.c:98), so the capacity handed to
\* adjustCapacity is GROW_CAPACITY of an indeterminate int, `garbage`.
tableSet(t, key, value, garbage) ==
  LET Put(g, i) ==
        IF i = -1 THEN [table |-> g, isNewKey |-> FALSE, hang |-> TRUE]
        ELSE LET entry == g.entries[i]
                 isNewKey == entry.key = NULL
             IN [table |->
                   [count |-> IF isNewKey /\ IS_NIL(entry.value)
                              THEN g.count + 1 ELSE g.count,
                    capacity |-> g.capacity,
                    entries |-> [g.entries EXCEPT
                                   ![i] = [key |-> key, value |-> value]]],
                 isNewKey |-> isNewKey, hang |-> FALSE]
      Grown(a) ==
        Put(a.table,
            IF a.hang THEN -1
            ELSE findEntry(a.table.entries, a.table.capacity, key))
  IN Grown(IF (t.count + 1) * 4 > t.capacity * 3
           THEN adjustCapacity(t, GROW_CAPACITY(garbage))
           ELSE [table |-> t, hang |-> FALSE])

\* tableDelete: [table, deleted]
tableDelete(t, key) ==
  LET At(i) ==
        IF i = -1 THEN [table |-> t, deleted |-> FALSE, hang |-> TRUE]
        ELSE IF t.entries[i].key = NULL
             THEN [table |-> t, deleted |-> FALSE, hang |-> FALSE]
             ELSE [table |->
                     [t EXCEPT !.entries[i] =
                        [key |-> NULL, value |-> BOOL_VAL(TRUE)]],
                   deleted |-> TRUE, hang |-> FALSE]
  IN IF t.count = 0 THEN [table |-> t, deleted |-> FALSE, hang |-> FALSE]
     ELSE At(findEntry(t.entries, t.capacity, key))

\* Values the uninitialised local of tableSet may hold.
GarbageInts == {0, 8}

\* The probe loop of tableFindString: [key, hang]; hang when the loop has
\* visited every slot without returning (the C loop then probes forever).
\* The hash of the key is tested for being non-zero (table.c:146).
RECURSIVE tableFindStringFrom(_, _, _, _, _)
tableFindStringFrom(t, chars, length, index, probes) ==
  LET entry == t.entries[index]
      next == (index + 1) % t.capacity
  IN IF probes = t.capacity THEN [key |-> NULL, hang |-> TRUE]
     ELSE IF entry.key = NULL
     THEN IF IS_NIL(entry.value) THEN [key |-> NULL, hang |-> FALSE]
          ELSE tableFindStringFrom(t, chars, length, next, probes + 1)
     ELSE IF /\ Len(entry.key.chars) = length
             /\ entry.key.hash # [hi |-> 0, lo |-> 0]
             /\ entry.key.chars = chars
     THEN [key |-> entry.key, hang |-> FALSE]
     ELSE tableFindStringFrom(t, chars, length, next, probes + 1)

tableFindString(t, chars, length, hash) ==
  IF t.count = 0 THEN [key |-> NULL, hang |-> FALSE]
  ELSE tableFindStringFrom(t, chars, length, HashMod(hash, t.capacity), 0)

\* copyString with its intern table: the string of these characters that
\* the table holds, or else a new ObjString, added to the objects and to the
\* table.  [strings, objects, string, hang]
internString(t, objs, chars, garbage) ==
  LET hash == hashString(chars)
      string == [kind |-> "OBJ_STRING", chars |-> chars, hash |-> hash,
                 id |-> Len(objs) + 1]
      Allocated(set) ==
        [strings |-> set.table, objects |-> Append(objs, string),
         string |-> string, hang |-> set.hang]
      Interned(found) ==
        IF found.hang \/ found.key # NULL
        THEN [strings |-> t, objects |-> objs, string |-> found.key,
              hang |-> found.hang]
        ELSE Allocated(tableSet(t, string, NIL_VAL, garbage))
  IN Interned(tableFindString(t, chars, Len(chars), hash))

\* ------------------------------------------------------------------ chunk

initValueArray == [capacity |-> 0, values |-> <<>>]

\* writeValueArray; count is Len(values).  `fatal` is exit(EXIT_FAILURE).
writeValueArray(array, value) ==
  LET count == Len(array.values)
      grown == GROW_CAPACITY(array.capacity)
      newCapacity == IF grown > UINT16_MAX THEN UINT16_MAX ELSE grown
  IN IF array.capacity < count + 1
     THEN IF grown > UINT16_MAX /\ count + 1 > UINT16_MAX
          THEN [array |-> array, fatal |-> TRUE]
          ELSE [array |-> [capacity |-> newCapacity,
                           values |-> Append(array.values, value)],
                fatal |-> FALSE]
     ELSE [array |-> [array EXCEPT !.values = Append(@, value)],
           fatal |-> FALSE]

initChunk ==
  [capacity |-> 0, code |-> <<>>, lines |-> <<>>, constants |-> initValueArray]

\* writeChunk; count is Len(code).
writeChunk(chunk, byte, line) ==
  [chunk EXCEPT
     !.capacity = IF @ < Len(chunk.code) + 1 THEN GROW_CAPACITY(@) ELSE @,
     !.code = Append(@, byte),
     !.lines = Append(@, line)]

\* addConstant: [chunk, index, fatal]; the index is returned as a uint16_t.
addConstant(chunk, value) ==
  LET w == writeValueArray(chunk.constants, value)
  IN [chunk |-> [chunk EXCEPT !.constants = w.array],
      index |-> (Len(w.array.values) - 1) % 65536,
      fatal |-> w.fatal]

newFunction ==
  [arity |-> 0, upvalueCount |-> 0, name |-> NULL, chunk |-> initChunk]

\* ----------------------------------------------------------------- tokens
\* scanner.c is not among the sources: a source text is the sequence of
\* tokens scanToken returns for it, followed by TOKEN_EOF for ever.

Tok(type, word) == [type |-> type, lexeme |-> <<word>>, line |-> 1]
Id(name) == [type |-> "TOKEN_IDENTIFIER", lexeme |-> name, line |-> 1]
Num(digits) == [type |-> "TOKEN_NUMBER", lexeme |-> digits, line |-> 1]
Str(chars) ==
  [type |-> "TOKEN_STRING", lexeme |-> <<"\"">> \o chars \o <<"\"">>,
   line |-> 1]
ErrTok(message) == [type |-> "TOKEN_ERROR", lexeme |-> message, line |-> 1]
EofTok == [type |-> "TOKEN_EOF", lexeme |-> <<>>, line |-> 1]

\* scanToken: [c, v] with v the next token
scanToken(c) ==
  IF c.pos <= Len(c.tokens)
  THEN [c |-> [c EXCEPT !.pos = @ + 1], v |-> c.tokens[c.pos]]
  ELSE [c |-> c, v |-> EofTok]

\* strtod on a lexeme of decimal digits
RECURSIVE strtod(_)
strtod(digits) ==
  IF digits = <<>> THEN 0
  ELSE 10 * strtod(SubSeq(digits, 1, Len(digits) - 1))
       + (Ascii(digits[Len(digits)]) - 48)

\* --------------------------------------------------------------- compiler
\* The compiler's state `c`:
\*   tokens, pos        the scanner
\*   parser             current, previous, hadError, panicMode
\*   compilers          the chain of Compiler structs, `current` last
\*   functions          the function objects allocated so far
\*   stderr             the diagnostics printed
\*   exited             the process called exit

TYPE_FUNCTION == "TYPE_FUNCTION"
TYPE_SCRIPT == "TYPE_SCRIPT"

PREC_NONE == 0
PREC_ASSIGNMENT == 1
PREC_OR == 2
PREC_AND == 3
PREC_EQUALITY == 4
PREC_COMPARISON == 5
PREC_TERM == 6
PREC_FACTOR == 7
PREC_UNARY == 8
PREC_CALL == 9
PREC_PRIMARY == 10

\* `current`, the innermost Compiler
cur(c) == c.compilers[Len(c.compilers)]

currentChunk(c) == c.functions[cur(c).function].chunk

chunkCount(c) == Len(currentChunk(c).code)

errorAt(c, token, message) ==
  IF c.parser.panicMode THEN c
  ELSE [c EXCEPT
          !.parser.panicMode = TRUE,
          !.stderr = Append(@,
             [line |-> token.line,
              at |-> IF token.type = "TOKEN_EOF" THEN <<"end">>
                     ELSE IF token.type = "TOKEN_ERROR" THEN <<>>
                     ELSE token.lexeme,
              message |-> message])]

error(c, message) == errorAt(c, c.parser.previous, message)

errorAtCurrent(c, message) == errorAt(c, c.parser.current, message)

\* The loop of advance: skip (and report) error tokens.
RECURSIVE advanceLoop(_)
advanceLoop(c) ==
  LET s == scanToken(c)
      c1 == [s.c EXCEPT !.parser.current = s.v]
  IN IF s.v.type # "TOKEN_ERROR" THEN c1
     ELSE advanceLoop(errorAtCurrent(c1, s.v.lexeme))

advance(c) == advanceLoop([c EXCEPT !.parser.previous = c.parser.current])

consume(c, type, message) ==
  IF c.exited THEN c
  ELSE IF c.parser.current.type = type THEN advance(c)
  ELSE errorAtCurrent(c, message)

check(c, type) == c.parser.current.type = type

\* match: [c, v]
match(c, type) ==
  IF c.exited \/ ~check(c, type) THEN [c |-> c, v |-> FALSE]
  ELSE [c |-> advance(c), v |-> TRUE]

\* emitByte takes a uint8_t: wider arguments are truncated.
emitByte(c, byte) ==
  [c EXCEPT !.functions[cur(c).function].chunk =
              writeChunk(@, byte % 256, c.parser.previous.line)]

emitBytes(c, byte1, byte2) ==
  IF c.exited THEN c ELSE emitByte(emitByte(c, byte1), byte2)

emitLoop(c, loopStart) ==
  LET Operand(c1, offset) ==
        emitByte(emitByte(IF offset > UINT16_MAX
                          THEN error(c1, "Loop body too large") ELSE c1,
                          (offset \div 256) % 256),
                 offset % 256)
      Emitted(c1) == Operand(c1, chunkCount(c1) - loopStart + 2)
  IN IF c.exited THEN c ELSE Emitted(emitByte(c, OP_LOOP))

\* emitJump: [c, v] with v the offset of the operand
emitJump(c, instruction) ==
  LET Emitted(c1) == [c |-> c1, v |-> chunkCount(c1) - 2]
  IN IF c.exited THEN [c |-> c, v |-> 0]
     ELSE Emitted(emitByte(emitByte(emitByte(c, instruction), 255), 255))

emitReturn(c) == emitByte(emitByte(c, OP_NIL), OP_RETURN)

\* makeConstant: [c, v]; `constant > UINT16_MAX` is never true of a uint16_t
makeConstant(c, value) ==
  LET a == addConstant(currentChunk(c), value)
      c1 == [c EXCEPT !.functions[cur(c).function].chunk = a.chunk,
                      !.exited = a.fatal]
  IN IF c.exited THEN [c |-> c, v |-> 0]
     ELSE IF a.index > UINT16_MAX
     THEN [c |-> error(c1, "Too many constants in one chunk"), v |-> 0]
     ELSE [c |-> c1, v |-> a.index]

emitConstant(c, value) ==
  LET Made(m) == emitBytes(m.c, OP_CONSTANT, m.v)
  IN Made(makeConstant(c, value))

patchJumpLowByteFirst(c, offset) ==
  LET jump == chunkCount(c) - offset - 2
  IN [c EXCEPT !.functions[cur(c).function].chunk.code =
                 [@ EXCEPT ![offset + 1] = jump % 256,
                           ![offset + 2] = (jump \div 256) % 256]]

patchJump(c, offset) ==
  LET Patched(c1, jump) ==
        [c1 EXCEPT !.functions[cur(c).function].chunk.code =
                     [@ EXCEPT ![offset + 1] = (jump \div 256) % 256,
                               ![offset + 2] = jump % 256]]
      Jump(jump) ==
        Patched(IF jump > UINT16_MAX
                THEN error(c, "Too much code to jump over.") ELSE c,
                jump)
  IN IF c.exited THEN c ELSE Jump(chunkCount(c) - offset - 2)

initCompiler(c, type) ==
  LET f == [newFunction EXCEPT
              !.name = IF type # TYPE_SCRIPT
                       THEN copyString(c.parser.previous.lexeme) ELSE NULL]
      id == Len(c.functions) + 1
  IN [c EXCEPT
        !.functions = Append(@, f),
        !.compilers = Append(@,
           [function |-> id, type |-> type, scopeDepth |-> 0,
            upvalues |-> <<>>,
            locals |-> <<[name |-> <<>>, depth |-> 0,
                          isCaptured |-> FALSE]>>])]

\* endCompiler: [c, v] with v the function compiled
endCompiler(c) ==
  LET Ended(c1) ==
        [c |-> [c1 EXCEPT !.compilers = SubSeq(@, 1, Len(@) - 1)],
         v |-> cur(c1).function]
  IN IF c.exited THEN [c |-> c, v |-> 0] ELSE Ended(emitReturn(c))

localCount(c) == Len(cur(c).locals)

beginScope(c) ==
  [c EXCEPT !.compilers[Len(c.compilers)].scopeDepth = @ + 1]

RECURSIVE endScopeLoop(_)
endScopeLoop(c) ==
  LET k == Len(c.compilers)
      n == localCount(c)
  IN IF n > 0 /\ cur(c).locals[n].depth > cur(c).scopeDepth
     THEN LET c1 == IF cur(c).locals[n].isCaptured
                    THEN emitByte(c, OP_CLOSE_UPVALUE)
                    ELSE emitByte(c, OP_POP)
          IN endScopeLoop(
               [c1 EXCEPT !.compilers[k].locals = SubSeq(@, 1, n - 1)])
     ELSE c

\* endScope that drops the locals at compile time only
endScopeSilent(c) ==
  LET k == Len(c.compilers)
      depth == cur(c).scopeDepth - 1
      kept == {i \in 1 .. localCount(c) : cur(c).locals[i].depth <= depth}
  IN [c EXCEPT !.compilers[k].scopeDepth = depth,
               !.compilers[k].locals = SubSeq(@, 1, Cardinality(kept))]

endScope(c) ==
  IF c.exited THEN c
  ELSE endScopeLoop(
         [c EXCEPT !.compilers[Len(c.compilers)].scopeDepth = @ - 1])

\* ---------------------------------------------------- variable resolution

identifiersEqual(a, b) == a = b

\* resolveLocal that passes over a local awaiting its initializer
resolveLocalInitialized(c, k, name) ==
  LET locals == c.compilers[k].locals
      hits == {i \in 0 .. Len(locals) - 1 :
                 locals[i + 1].name = name /\ locals[i + 1].depth # -1}
  IN [c |-> c,
      v |-> IF hits = {} THEN -1
            ELSE CHOOSE i \in hits : \A j \in hits : j <= i]

\* resolveLocal: [c, v] with v the index (from 0) of the last local of
\* compilers[k] called name, the first one the loop meets on its way down
\* from localCount - 1, or -1
resolveLocal(c, k, name) ==
  LET locals == c.compilers[k].locals
      hits == {i \in 0 .. Len(locals) - 1 :
                 identifiersEqual(name, locals[i + 1].name)}
      Found(i) ==
        [c |-> IF locals[i + 1].depth = -1
               THEN error(c,
                      "Can't read local variable in its own initializer")
               ELSE c,
         v |-> i]
  IN IF hits = {} THEN [c |-> c, v |-> -1]
     ELSE Found(CHOOSE i \in hits : \A j \in hits : j <= i)

\* addUpValue without the search for an existing entry
addUpValueAlways(c, k, index, isLocal) ==
  LET fn == c.compilers[k].function
      upvalueCount == c.functions[fn].upvalueCount
  IN [c |-> [c EXCEPT
               !.compilers[k].upvalues =
                  Append(@, [isLocal |-> isLocal, index |-> index]),
               !.functions[fn].upvalueCount = @ + 1],
      v |-> upvalueCount]

\* addUpValue: [c, v]
addUpValue(c, k, index, isLocal) ==
  LET fn == c.compilers[k].function
      upvalueCount == c.functions[fn].upvalueCount
      ups == c.compilers[k].upvalues
      hits == {i \in 0 .. upvalueCount - 1 :
                 ups[i + 1].index = index /\ ups[i + 1].isLocal = isLocal}
  IN IF hits # {}
     THEN [c |-> c, v |-> CHOOSE i \in hits : \A j \in hits : i <= j]
     ELSE IF upvalueCount = UINT8_COUNT
          THEN [c |-> error(c, "Too many closure variables in function."),
                v |-> 0]
          ELSE [c |-> [c EXCEPT
                         !.compilers[k].upvalues =
                            Append(@, [isLocal |-> isLocal, index |-> index]),
                         !.functions[fn].upvalueCount = @ + 1],
                v |-> upvalueCount]

\* resolveUpvalue: [c, v]; compilers[k-1] is the enclosing compiler
RECURSIVE resolveUpvalue(_, _, _)
resolveUpvalue(c, k, name) ==
  LET Enclosing(u) ==
        IF u.v # -1 THEN addUpValue(u.c, k, u.v % 256, FALSE)
        ELSE [c |-> u.c, v |-> -1]
      Local(l) ==
        IF l.v # -1
        THEN addUpValue(
               [l.c EXCEPT !.compilers[k - 1].locals[l.v + 1].isCaptured
                             = TRUE],
               k, l.v % 256, TRUE)
        ELSE Enclosing(resolveUpvalue(l.c, k - 1, name))
  IN IF k = 1 THEN [c |-> c, v |-> -1]
     ELSE Local(resolveLocal(c, k - 1, name))

\* addLocal without the test of localCount
addLocalUnbounded(c, name) ==
  [c EXCEPT !.compilers[Len(c.compilers)].locals =
              Append(@, [name |-> name, depth |-> -1,
                         isCaptured |-> FALSE])]

addLocal(c, name) ==
  IF localCount(c) = UINT8_COUNT
  THEN error(c, "Too many local variables in function.")
  ELSE [c EXCEPT !.compilers[Len(c.compilers)].locals =
                   Append(@, [name |-> name, depth |-> -1,
                              isCaptured |-> FALSE])]

\* declareVariable without the search for a local of the same scope
declareVariableUnchecked(c) == addLocal(c, c.parser.previous.lexeme)

\* declareVariable: the loop walks down from the last local to the first
\* one of an enclosing scope and reports a local called name on its way
declareVariable(c) ==
  LET name == c.parser.previous.lexeme
      locals == cur(c).locals
      enclosing == {i \in 1 .. Len(locals) :
                      locals[i].depth # -1
                        /\ locals[i].depth < cur(c).scopeDepth}
      duplicate == \E i \in 1 .. Len(locals) :
                     /\ \A j \in enclosing : j < i
                     /\ identifiersEqual(name, locals[i].name)
  IN addLocal(IF duplicate
              THEN error(c,
                     "Already a variable with same name in this scope.")
              ELSE c,
              name)

\* identifierConstant: [c, v]
identifierConstant(c, name) == makeConstant(c, OBJ_VAL(copyString(name)))

\* parseVariable: [c, v]
parseVariable(c, errorMessage) ==
  LET Named(c1) ==
        IF cur(c1).scopeDepth = 0
        THEN identifierConstant(c1, c1.parser.previous.lexeme)
        ELSE [c |-> declareVariable(c1), v |-> 0]
  IN Named(consume(c, "TOKEN_IDENTIFIER", errorMessage))

markInitialized(c) ==
  IF cur(c).scopeDepth = 0 THEN c
  ELSE [c EXCEPT !.compilers[Len(c.compilers)].locals[localCount(c)].depth =
                   cur(c).scopeDepth]

defineVariable(c, global) ==
  IF c.exited THEN c
  ELSE IF cur(c).scopeDepth > 0 THEN markInitialized(c)
  ELSE emitBytes(c, OP_DEFINE_GLOBAL, global)

\* ------------------------------------------------------------ expressions

Rule(prefix, infix, precedence) ==
  [prefix |-> prefix, infix |-> infix, precedence |-> precedence]

\* rules[]; "NULL" is an absent parse function
getRule(type) ==
  CASE type = "TOKEN_LEFT_PAREN" -> Rule("grouping", "call", PREC_CALL)
    [] type = "TOKEN_MINUS" -> Rule("unary", "binary", PREC_TERM)
    [] type = "TOKEN_PLUS" -> Rule("NULL", "binary", PREC_TERM)
    [] type = "TOKEN_SLASH" -> Rule("NULL", "binary", PREC_FACTOR)
    [] type = "TOKEN_STAR" -> Rule("NULL", "binary", PREC_FACTOR)
    [] type = "TOKEN_BANG" -> Rule("unary", "NULL", PREC_NONE)
    [] type = "TOKEN_BANG_EQUAL" -> Rule("NULL", "binary", PREC_EQUALITY)
    [] type = "TOKEN_EQUAL_EQUAL" -> Rule("NULL", "binary", PREC_EQUALITY)
    [] type = "TOKEN_GREATER" -> Rule("NULL", "binary", PREC_COMPARISON)
    [] type = "TOKEN_GREATER_EQUAL" -> Rule("NULL", "binary", PREC_COMPARISON)
    [] type = "TOKEN_LESS" -> Rule("NULL", "binary", PREC_COMPARISON)
    [] type = "TOKEN_LESS_EQUAL" -> Rule("NULL", "binary", PREC_COMPARISON)
    [] type = "TOKEN_IDENTIFIER" -> Rule("variable", "NULL", PREC_NONE)
    [] type = "TOKEN_STRING" -> Rule("string", "NULL", PREC_NONE)
    [] type = "TOKEN_NUMBER" -> Rule("number", "NULL", PREC_NONE)
    [] type = "TOKEN_AND" -> Rule("NULL", "and_", PREC_NONE)
    [] type = "TOKEN_FALSE" -> Rule("literal", "NULL", PREC_NONE)
    [] type = "TOKEN_NIL" -> Rule("literal", "NULL", PREC_NONE)
    [] type = "TOKEN_OR" -> Rule("NULL", "or_", PREC_NONE)
    [] type = "TOKEN_TRUE" -> Rule("literal", "NULL", PREC_NONE)
    [] OTHER -> Rule("NULL", "NULL", PREC_NONE)

\* getRule(parser.previous.type)->prefix and ->infix
prefixOf(c) == getRule(c.parser.previous.type).prefix

infixOf(c) == getRule(c.parser.previous.type).infix

RECURSIVE infixLoop(_, _, _)
RECURSIVE argumentLoop(_, _)

\* parsePrecedence and statement are the two functions through which the
\* grammar recurses; a call of either goes through Parse, the one recursive
\* operator of the grammar, which runs the function named.
RECURSIVE Parse(_, _, _)

ParsePrecedence(c, precedence) == Parse("parsePrecedence", c, precedence)

Statement(c) == Parse("statement", c, 0)

expression(c) == Parse("parsePrecedence", c, PREC_ASSIGNMENT)

binary(c, canAssign) ==
  LET operatorType == c.parser.previous.type
      Operator(c1) ==
        CASE operatorType = "TOKEN_BANG_EQUAL" -> emitBytes(c1, OP_EQUAL, OP_NOT)
       [] operatorType = "TOKEN_EQUAL_EQUAL" -> emitByte(c1, OP_EQUAL)
       [] operatorType = "TOKEN_GREATER" -> emitByte(c1, OP_GREATER)
       [] operatorType = "TOKEN_GREATER_EQUAL" ->
            emitBytes(c1, OP_LESS, OP_NOT)
       [] operatorType = "TOKEN_LESS" -> emitByte(c1, OP_LESS)
       [] operatorType = "TOKEN_LESS_EQUAL" ->
            emitBytes(c1, OP_GREATER, OP_NOT)
       [] operatorType = "TOKEN_BANG" -> emitByte(c1, OP_NOT)
       [] operatorType = "TOKEN_PLUS" -> emitByte(c1, OP_ADD)
       [] operatorType = "TOKEN_MINUS" -> emitByte(c1, OP_SUBTRACT)
       [] operatorType = "TOKEN_STAR" -> emitByte(c1, OP_MULTIPLY)
       [] operatorType = "TOKEN_SLASH" -> emitByte(c1, OP_DIVIDE)
       [] OTHER -> errorAt(c1, c1.parser.previous,
                           "Token not yet processable.")
  IN Operator(ParsePrecedence(c, getRule(operatorType).precedence + 1))

\* The do-while of argumentList: [c, v] with v the uint8_t argCount
argumentLoop(c, argCount) ==
  LET Comma(m) ==
        IF m.v THEN argumentLoop(m.c, (argCount + 1) % 256)
        ELSE [c |-> m.c, v |-> (argCount + 1) % 256]
      Argument(c1) ==
        IF c1.exited THEN [c |-> c1, v |-> argCount]
        ELSE Comma(match(IF argCount = 255
                         THEN error(c1, "Can't have more than 255 arguments.")
                         ELSE c1,
                         "TOKEN_COMMA"))
  IN Argument(expression(c))

argumentList(c) ==
  LET Arguments(r) ==
        [c |-> consume(r.c, "TOKEN_RIGHT_PAREN",
                       "Expect ')' after arguments."),
         v |-> r.v]
  IN Arguments(IF ~check(c, "TOKEN_RIGHT_PAREN") THEN argumentLoop(c, 0)
               ELSE [c |-> c, v |-> 0])

\* call (the infix rule of compiler.c)
compilerCall(c, canAssign) ==
  LET Arguments(a) == emitBytes(a.c, OP_CALL, a.v)
  IN Arguments(argumentList(c))

literal(c, canAssign) ==
  CASE c.parser.previous.type = "TOKEN_FALSE" -> emitByte(c, OP_FALSE)
    [] c.parser.previous.type = "TOKEN_NIL" -> emitByte(c, OP_NIL)
    [] c.parser.previous.type = "TOKEN_TRUE" -> emitByte(c, OP_TRUE)
    [] OTHER -> c

grouping(c, canAssign) ==
  consume(expression(c), "TOKEN_RIGHT_PAREN", "Expect ')' after expression.")

number(c, canAssign) ==
  emitConstant(c, NUMBER_VAL(strtod(c.parser.previous.lexeme)))

or_(c, canAssign) ==
  LET Right(elseJump, endJump) ==
        patchJump(
          ParsePrecedence(
            emitByte(patchJump(endJump.c, elseJump.v), OP_POP), PREC_OR),
          endJump.v)
      Else(elseJump) == Right(elseJump, emitJump(elseJump.c, OP_JUMP))
  IN Else(emitJump(c, OP_JUMP_IF_FALSE))

string(c, canAssign) ==
  LET lexeme == c.parser.previous.lexeme
  IN emitConstant(c,
       OBJ_VAL(copyString(SubSeq(lexeme, 2, Len(lexeme) - 1))))

namedVariable(c, name, canAssign) ==
  LET k == Len(c.compilers)
      Resolved(r) ==
        IF r.c.exited THEN r.c
        ELSE IF canAssign /\ check(r.c, "TOKEN_EQUAL")
        THEN emitBytes(expression(advance(r.c)), r.setOp, r.arg)
        ELSE emitBytes(r.c, r.getOp, r.arg)
      Global(g) ==
        [c |-> g.c, getOp |-> OP_GET_GLOBAL, setOp |-> OP_SET_GLOBAL,
         arg |-> g.v]
      Upvalue(u) ==
        IF u.v # -1
        THEN [c |-> u.c, getOp |-> OP_GET_UPVALUE, setOp |-> OP_SET_UPVALUE,
              arg |-> u.v]
        ELSE Global(identifierConstant(u.c, name))
      Local(l) ==
        IF l.v # -1
        THEN [c |-> l.c, getOp |-> OP_GET_LOCAL, setOp |-> OP_SET_LOCAL,
              arg |-> l.v]
        ELSE Upvalue(resolveUpvalue(l.c, k, name))
  IN Resolved(Local(resolveLocal(c, k, name)))

variable(c, canAssign) == namedVariable(c, c.parser.previous.lexeme, canAssign)

unary(c, canAssign) ==
  LET operatorType == c.parser.previous.type
      Operand(c1) ==
        IF operatorType = "TOKEN_MINUS" THEN emitByte(c1, OP_NEGATE) ELSE c1
  IN Operand(ParsePrecedence(c, PREC_UNARY))

and_(c, canAssign) ==
  LET Right(endJump) ==
        patchJump(ParsePrecedence(emitByte(endJump.c, OP_POP), PREC_AND),
                  endJump.v)
  IN Right(emitJump(c, OP_JUMP_IF_FALSE))

\* The call prefixRule(canAssign) of parsePrecedence
prefixRule(c, canAssign) ==
  CASE prefixOf(c) = "grouping" -> grouping(c, canAssign)
    [] prefixOf(c) = "unary" -> unary(c, canAssign)
    [] prefixOf(c) = "variable" -> variable(c, canAssign)
    [] prefixOf(c) = "string" -> string(c, canAssign)
    [] prefixOf(c) = "number" -> number(c, canAssign)
    [] prefixOf(c) = "literal" -> literal(c, canAssign)

\* The call infixRule(canAssign) of parsePrecedence; a call through NULL
\* ends the process
infixRule(c, canAssign) ==
  CASE infixOf(c) = "call" -> compilerCall(c, canAssign)
    [] infixOf(c) = "binary" -> binary(c, canAssign)
    [] infixOf(c) = "and_" -> and_(c, canAssign)
    [] infixOf(c) = "or_" -> or_(c, canAssign)
    [] OTHER -> [c EXCEPT !.exited = TRUE]

\* The while loop of parsePrecedence
infixLoop(c, precedence, canAssign) ==
  IF c.exited THEN c
  ELSE IF precedence <= getRule(c.parser.current.type).precedence
  THEN infixLoop(infixRule(advance(c), canAssign), precedence, canAssign)
  ELSE c

parsePrecedence(c, precedence) ==
  LET canAssign == precedence <= PREC_ASSIGNMENT
      c1 == advance(c)
      Infix(c3) ==
        IF c3.exited THEN c3
        ELSE IF canAssign /\ check(c3, "TOKEN_EQUAL")
        THEN error(advance(c3), "Invalid assignment target.")
        ELSE c3
      Prefix(c2) ==
        IF c2.exited THEN c2
        ELSE Infix(infixLoop(c2, precedence, canAssign))
  IN IF c1.exited THEN c1
     ELSE IF prefixOf(c1) = "NULL" THEN error(c1, "Expect expression.")
     ELSE Prefix(prefixRule(c1, canAssign))

\* ------------------------------------------------------------- statements

RECURSIVE block(_)
RECURSIVE declaration(_)

\* block: an iteration of the while loop and the rest of block() from
\* there, or, once the loop's condition fails, the consume that follows it
block(c) ==
  IF c.exited THEN c
  ELSE IF ~check(c, "TOKEN_RIGHT_BRACE") /\ ~check(c, "TOKEN_EOF")
  THEN block(declaration(c))
  ELSE consume(c, "TOKEN_RIGHT_BRACE", "Expect '}' after block.")

\* The do-while over the parameters of function()
RECURSIVE parameterLoop(_)
parameterLoop(c) ==
  LET fn == cur(c).function
      Comma(m) == IF m.v THEN parameterLoop(m.c) ELSE m.c
      Parameter(pv) == Comma(match(defineVariable(pv.c, pv.v), "TOKEN_COMMA"))
      Counted(c1) ==
        Parameter(
          parseVariable(
            IF c1.functions[fn].arity > 255
            THEN errorAtCurrent(c1, "Can't have more than 255 parameters.")
            ELSE c1,
            "Expect parameter name."))
  IN Counted([c EXCEPT !.functions[fn].arity = @ + 1])

\* The loop of function() that emits the operand pairs of OP_CLOSURE
RECURSIVE emitUpvalues(_, _, _, _)
emitUpvalues(c, upvalues, i, upvalueCount) ==
  IF i >= upvalueCount THEN c
  ELSE emitUpvalues(
         emitByte(emitByte(c, IF upvalues[i + 1].isLocal THEN 1 ELSE 0),
                  upvalues[i + 1].index),
         upvalues, i + 1, upvalueCount)

function(c, type) ==
  LET Closure(m, fn, upvalues) ==
        emitUpvalues(emitBytes(m.c, OP_CLOSURE, m.v), upvalues, 0,
                     m.c.functions[fn].upvalueCount)
      Ended(e, upvalues) ==
        Closure(makeConstant(e.c,
                             OBJ_VAL([kind |-> "OBJ_FUNCTION", id |-> e.v])),
                e.v, upvalues)
      Body(c4) ==
        IF c4.exited THEN c4 ELSE Ended(endCompiler(c4), cur(c4).upvalues)
      Paren(c1) ==
        IF ~check(c1, "TOKEN_RIGHT_PAREN") THEN parameterLoop(c1) ELSE c1
  IN Body(block(
       consume(
         consume(
           Paren(consume(beginScope(initCompiler(c, type)),
                         "TOKEN_LEFT_PAREN",
                         "Expect '(' after function name.")),
           "TOKEN_RIGHT_PAREN", "Expect ')' after parameters."),
         "TOKEN_LEFT_BRACE", "Expect '{' before function body.")))

funDeclaration(c) ==
  LET global == parseVariable(c, "Expect function name")
  IN defineVariable(function(markInitialized(global.c), TYPE_FUNCTION),
                    global.v)

varDeclaration(c) ==
  LET Initializer(m, global) ==
        defineVariable(
          consume(IF m.v THEN expression(m.c) ELSE emitByte(m.c, OP_NIL),
                  "TOKEN_SEMICOLON", "Expect ';' after variable declaration"),
          global)
      Named(global) == Initializer(match(global.c, "TOKEN_EQUAL"), global.v)
  IN Named(parseVariable(c, "Expect variable name."))

expressionStatement(c) ==
  consume(expression(c), "TOKEN_SEMICOLON", "Expect ';' after expression.")

ifStatement(c) ==
  LET Else(m, elseJump) ==
        patchJump(IF m.v THEN Statement(m.c) ELSE m.c, elseJump)
      Then(elseJump, thenJump) ==
        Else(match(emitByte(patchJump(elseJump.c, thenJump), OP_POP),
                   "TOKEN_ELSE"),
             elseJump.v)
      Condition(thenJump) ==
        Then(emitJump(Statement(emitByte(thenJump.c, OP_POP)), OP_JUMP),
             thenJump.v)
  IN Condition(
       emitJump(
         consume(
           expression(consume(c, "TOKEN_LEFT_PAREN",
                              "Expect '(' after 'if'.")),
           "TOKEN_RIGHT_PAREN", "Expect ')' after condition."),
         OP_JUMP_IF_FALSE))

whileStatement(c) ==
  LET loopStart == chunkCount(c)
      Condition(exitJump) ==
        emitByte(
          patchJump(
            emitLoop(Statement(emitByte(exitJump.c, OP_POP)), loopStart),
            exitJump.v),
          OP_POP)
  IN Condition(
       emitJump(
         consume(
           expression(consume(c, "TOKEN_LEFT_PAREN",
                              "Expect '(' after 'while'.")),
           "TOKEN_RIGHT_PAREN", "Expect ')' after condition."),
         OP_JUMP_IF_FALSE))

printStatement(c) ==
  emitByte(consume(expression(c), "TOKEN_SEMICOLON",
                   "Expect ';' after statement value."),
           OP_PRINT)

returnStatement(c) ==
  LET Value(m) ==
        IF m.v THEN emitReturn(m.c)
        ELSE emitByte(consume(expression(m.c), "TOKEN_SEMICOLON",
                              "Expect ';' after return value."),
                      OP_RETURN)
  IN Value(match(IF cur(c).type = TYPE_SCRIPT
                 THEN error(c, "Can't return from top-level code.") ELSE c,
                 "TOKEN_SEMICOLON"))

forStatement(c) ==
  LET Exit(c7, exitJump) ==
        endScope(IF exitJump # -1
                 THEN emitByte(patchJump(c7, exitJump), OP_POP) ELSE c7)
      Body(c6, loopStart, exitJump) ==
        Exit(emitLoop(Statement(c6), loopStart), exitJump)
      Increment(bodyJump, loopStart, exitJump) ==
        Body(patchJump(
               emitLoop(
                 consume(emitByte(expression(bodyJump.c), OP_POP),
                         "TOKEN_RIGHT_PAREN", "Expect ')' after for clauses."),
                 loopStart),
               bodyJump.v),
             chunkCount(bodyJump.c), exitJump)
      Clauses(m4, loopStart, exitJump) ==
        IF ~m4.v THEN Increment(emitJump(m4.c, OP_JUMP), loopStart, exitJump)
        ELSE Body(m4.c, loopStart, exitJump)
      Condition(c4, loopStart, exitJump) ==
        Clauses(match(c4, "TOKEN_RIGHT_PAREN"), loopStart, exitJump)
      Jump(exitJump, loopStart) ==
        Condition(emitByte(exitJump.c, OP_POP), loopStart, exitJump.v)
      Test(m3, loopStart) ==
        IF ~m3.v
        THEN Jump(emitJump(consume(expression(m3.c), "TOKEN_SEMICOLON",
                                   "Expect ';' after loop condition."),
                           OP_JUMP_IF_FALSE),
                  loopStart)
        ELSE Condition(m3.c, loopStart, -1)
      Initialized(c2) == Test(match(c2, "TOKEN_SEMICOLON"), chunkCount(c2))
      Var(m2) ==
        Initialized(IF m2.v THEN varDeclaration(m2.c)
                    ELSE expressionStatement(m2.c))
      Initializer(m1) ==
        IF m1.v THEN Initialized(m1.c) ELSE Var(match(m1.c, "TOKEN_VAR"))
  IN Initializer(match(consume(beginScope(c), "TOKEN_LEFT_PAREN",
                               "Expect '(' after 'for'."),
                       "TOKEN_SEMICOLON"))

SyncTokens ==
  {"TOKEN_CLASS", "TOKEN_FUN", "TOKEN_VAR", "TOKEN_FOR", "TOKEN_IF",
   "TOKEN_WHILE", "TOKEN_PRINT", "TOKEN_RETURN"}

RECURSIVE synchronizeLoop(_)
synchronizeLoop(c) ==
  IF c.parser.current.type # "TOKEN_EOF"
  THEN IF c.parser.previous.type = "TOKEN_SEMICOLON" THEN c
       ELSE IF c.parser.current.type \in SyncTokens THEN c
       ELSE synchronizeLoop(advance(c))
  ELSE c

synchronize(c) == synchronizeLoop([c EXCEPT !.parser.panicMode = FALSE])

\* The `if (parser.panicMode) synchronize();` that ends declaration()
synchronizeIfPanic(c) ==
  IF c.exited THEN c
  ELSE IF c.parser.panicMode THEN synchronize(c)
  ELSE c

\* declaration, up to the test of panicMode
declared(c) ==
  IF check(c, "TOKEN_FUN") THEN funDeclaration(advance(c))
  ELSE IF check(c, "TOKEN_VAR") THEN varDeclaration(advance(c))
  ELSE Parse("statement", c, 0)

declaration(c) == synchronizeIfPanic(declared(c))

statement(c) ==
  CASE check(c, "TOKEN_PRINT") -> printStatement(advance(c))
    [] check(c, "TOKEN_FOR") -> forStatement(advance(c))
    [] check(c, "TOKEN_IF") -> ifStatement(advance(c))
    [] check(c, "TOKEN_RETURN") -> returnStatement(advance(c))
    [] check(c, "TOKEN_WHILE") -> whileStatement(advance(c))
    [] check(c, "TOKEN_LEFT_BRACE") -> endScope(block(beginScope(advance(c))))
    [] OTHER -> expressionStatement(c)

Parse(fn, c, arg) ==
  IF fn = "statement" THEN statement(c) ELSE parsePrecedence(c, arg)

RECURSIVE compileLoop(_)
compileLoop(c) ==
  IF c.exited THEN c
  ELSE IF check(c, "TOKEN_EOF") THEN advance(c)
  ELSE compileLoop(declaration(c))

\* compile: the function (NULL or its index), the function objects
\* allocated, the diagnostics printed
\* The start of compile: initScanner and initCompiler
compileStart(tokens, heap) ==
  LET c0 == [tokens |-> tokens, pos |-> 1,
             parser |-> [current |-> EofTok, previous |-> EofTok,
                         hadError |-> FALSE, panicMode |-> FALSE],
             compilers |-> <<>>, functions |-> heap, stderr |-> <<>>,
             exited |-> FALSE]
      Primed(c1) ==
        [c1 EXCEPT !.parser.hadError = FALSE, !.parser.panicMode = FALSE]
  IN Primed(initCompiler(c0, TYPE_SCRIPT))

\* The end of compile, after the loop over the declarations
compileEnd(c) ==
  LET Ended(e) ==
        [function |-> IF e.c.parser.hadError THEN NULL
                      ELSE [kind |-> "OBJ_FUNCTION", id |-> e.v],
         functions |-> e.c.functions,
         stderr |-> e.c.stderr,
         exited |-> e.c.exited]
  IN IF c.exited
     THEN [function |-> NULL, functions |-> c.functions,
           stderr |-> c.stderr, exited |-> TRUE]
     ELSE Ended(endCompiler(c))

compile(tokens, heap) ==
  compileEnd(compileLoop(advance(compileStart(tokens, heap))))

\* --------------------------------------------------------------------- vm
\* The operators below act on a record `v` of the VM's state:
\*   stack, stackBase, stackTop, stackCapacity, frames, globals, functions,
\*   mode, result, out, err.
\* A Value* is an address; the slot it points to is address - stackBase.
\* A read outside the allocated slots yields an indeterminate value
\* (UNINIT); a write outside them, or a test of an indeterminate value, is
\* undefined behaviour and leaves the process in mode "fault".

\* Addresses realloc may return for the stack
Bases == {100000, 200000}

\* Results of clock() / CLOCKS_PER_SEC
ClockValues == {0, 1}

frameCount(v) == Len(v.frames)

InStack(v, address) ==
  (address - v.stackBase) \in 0 .. v.stackCapacity - 1

Load(v, address) ==
  IF InStack(v, address) THEN v.stack[address - v.stackBase] ELSE UNINIT

Store(v, address, value) ==
  IF InStack(v, address)
  THEN [v EXCEPT !.stack[address - v.stackBase] = value]
  ELSE [v EXCEPT !.mode = "fault"]

Fault(v) == [v EXCEPT !.mode = "fault"]

\* The reallocation without the loop that rebases the frames' slots
reallocStackKeepsSlots(v, newCapacity, newBase) ==
  [v EXCEPT
     !.stackCapacity = newCapacity,
     !.stackBase = newBase,
     !.stack = [i \in 0 .. newCapacity - 1 |->
                  IF i < v.stackCapacity THEN v.stack[i] ELSE UNINIT],
     !.stackTop = newBase + (v.stackTop - v.stackBase)]

\* reallocate() of the stack to newCapacity slots at address newBase, and
\* the rebasing of stackTop and of the slots of frames[0 .. frameCount-1]
\* that push and pop do after it
reallocStack(v, newCapacity, newBase) ==
  LET oldStack == v.stackBase
      stackIdx == v.stackTop - v.stackBase
  IN [v EXCEPT
        !.stackCapacity = newCapacity,
        !.stackBase = newBase,
        !.stack = [i \in 0 .. newCapacity - 1 |->
                     IF i < v.stackCapacity THEN v.stack[i] ELSE UNINIT],
        !.stackTop = newBase + stackIdx,
        !.frames = [i \in 1 .. Len(v.frames) |->
                      [v.frames[i] EXCEPT
                         !.slots = newBase + (v.frames[i].slots - oldStack)]]]

push(v, value, newBase) ==
  IF (v.stackTop - v.stackBase) + 1 > STACK_MAX
  THEN [v EXCEPT !.mode = "exited",
                 !.err = Append(@, "Fatal error: Stack overflow")]
  ELSE LET Write(g) == [Store(g, g.stackTop, value) EXCEPT !.stackTop = @ + 1]
       IN Write(IF v.stackCapacity < (v.stackTop - v.stackBase) + 1
                THEN reallocStack(v, GROW_CAPACITY(v.stackCapacity), newBase)
                ELSE v)

\* pop: [v, value]
pop(v, newBase) ==
  LET Read(w) == [v |-> w, value |-> Load(w, w.stackTop)]
      Shrunk(g) == Read([g EXCEPT !.stackTop = @ - 1])
  IN Shrunk(IF (v.stackTop - v.stackBase) < v.stackCapacity \div 2
            THEN reallocStack(v, SHRINK_CAPACITY(v.stackCapacity), newBase)
            ELSE v)

peek(v, distance) == Load(v, v.stackTop - 1 - distance)

\* resetStack without `vm.frameCount = 0`
resetStackKeepsFrames(v) == [v EXCEPT !.stackTop = v.stackBase]

resetStack(v) == [v EXCEPT !.stackTop = v.stackBase, !.frames = <<>>]

\* The stack trace of runtimeError, frames i .. 0
RECURSIVE traceFrom(_, _)
traceFrom(v, i) ==
  IF i < 1 THEN <<>>
  ELSE LET fn == v.functions[v.frames[i].function]
           instruction == v.frames[i].ip - 1
           lines == fn.chunk.lines
       IN <<[line |-> IF instruction + 1 \in 1 .. Len(lines)
                      THEN lines[instruction + 1] ELSE -1,
             name |-> IF fn.name = NULL THEN <<"script">>
                      ELSE fn.name.chars]>>
          \o traceFrom(v, i - 1)

\* runtimeError; `message` is the formatted message
runtimeError(v, message) ==
  resetStack([v EXCEPT
                !.err = Append(@, message) \o traceFrom(v, Len(v.frames))])

\* A run() that returns INTERPRET_RUNTIME_ERROR
RuntimeErrorResult(v, message) ==
  [runtimeError(v, message) EXCEPT
     !.mode = "idle", !.result = "INTERPRET_RUNTIME_ERROR"]

\* call: [v, ok]
call(v, fn, argCount) ==
  LET f == v.functions[fn]
  IN IF argCount # f.arity
     THEN [v |-> runtimeError(v,
                   [format |-> "Expected %d arguments but got %d",
                    args |-> <<f.arity, argCount>>]),
           ok |-> FALSE]
     ELSE IF frameCount(v) = FRAMES_MAX
          THEN [v |-> runtimeError(v, [format |-> "Stack overflow.",
                                       args |-> <<>>]),
                ok |-> FALSE]
          ELSE [v |-> [v EXCEPT !.frames = Append(@,
                         [function |-> fn, ip |-> 0,
                          slots |-> v.stackTop - argCount - 1])],
                ok |-> TRUE]

\* callValue: [v, ok]; `seconds` is what clockNative returns if it is called
callValue(v, callee, argCount, newBase, seconds) ==
  IF callee = UNINIT THEN [v |-> Fault(v), ok |-> FALSE]
  ELSE IF isObjType(callee, "OBJ_FUNCTION")
  THEN call(v, callee.obj.id, argCount)
  ELSE IF isObjType(callee, "OBJ_NATIVE")
  THEN [v |-> push([v EXCEPT !.stackTop = @ - (argCount + 1)],
                   NUMBER_VAL(seconds), newBase),
        ok |-> TRUE]
  ELSE [v |-> runtimeError(v,
                [format |-> "Can only call functions and classes.",
                 args |-> <<>>]),
        ok |-> FALSE]

\* isFalsey that takes false for a truthy value
isFalseyNil(value) == IS_NIL(value)

isFalsey(value) == IS_NIL(value) \/ (IS_BOOL(value) /\ ~value.boolean)

\* valuesEqual compares two objects as ObjStrings, by length and characters
valuesEqual(a, b) ==
  IF a.type # b.type THEN FALSE
  ELSE CASE a.type = "VAL_NIL" -> TRUE
         [] a.type = "VAL_BOOL" -> a.boolean = b.boolean
         [] a.type = "VAL_NUMBER" -> a.number = b.number
         [] a.type = "VAL_OBJ" ->
              Len(a.obj.chars) = Len(b.obj.chars) /\ a.obj.chars = b.obj.chars
         [] OTHER -> FALSE

\* valuesEqual reads only what its operands hold: an object that is not a
\* string has no length and no characters
valuesEqualDefined(a, b) ==
  /\ a # UNINIT /\ b # UNINIT
  /\ (IS_OBJ(a) /\ IS_OBJ(b)) => (IS_STRING(a) /\ IS_STRING(b))

\* What valuesEqual may do with an object that is no string: it reads the
\* length and the characters of an ObjString where there are none
UndefinedComparisons == {"fault", "true", "false"}

\* defineNative("clock", clockNative)
defineNative(v, name, nativeFn, newBase, garbage) ==
  LET Pushed(v2) ==
        pop(pop([v2 EXCEPT !.globals =
                   tableSet(@, Load(v2, v2.stackBase).obj,
                            Load(v2, v2.stackBase + 1), garbage).table],
                newBase).v,
            newBase).v
  IN Pushed(push(push(v, OBJ_VAL(copyString(name)), newBase),
                 OBJ_VAL(newNative(nativeFn)), newBase))

\* The VM before initVM: the zero-initialised global `vm`
zeroVM ==
  [stack |-> [i \in {} |-> UNINIT], stackBase |-> 0, stackTop |-> 0,
   stackCapacity |-> 0, frames |-> <<>>, globals |-> initTable,
   functions |-> <<>>, mode |-> "idle", result |-> "NONE", out |-> <<>>,
   err |-> <<>>]

initVM(newBase, garbage) ==
  defineNative(resetStack(zeroVM), <<"c", "l", "o", "c", "k">>, "clockNative",
               newBase, garbage)

\* ------------------------------------------------------------- run, by step

VM ==
  [stack |-> stack, stackBase |-> stackBase, stackTop |-> stackTop,
   stackCapacity |-> stackCapacity, frames |-> frames, globals |-> globals,
   functions |-> functions, mode |-> mode, result |-> result, out |-> out,
   err |-> err]

Commit(v) ==
  /\ stack' = v.stack
  /\ stackBase' = v.stackBase
  /\ stackTop' = v.stackTop
  /\ stackCapacity' = v.stackCapacity
  /\ frames' = v.frames
  /\ globals' = v.globals
  /\ functions' = v.functions
  /\ mode' = v.mode
  /\ result' = v.result
  /\ out' = v.out
  /\ err' = v.err

\* `frame`, the CallFrame run() executes
frame == frames[Len(frames)]

chunkOf(fr) == functions[fr.function].chunk

\* The byte at offset `at` of the running chunk; -1 outside the code
CodeAt(at) ==
  LET code == chunkOf(frame).code
  IN IF at + 1 \in 1 .. Len(code) THEN code[at + 1] ELSE -1

\* The opcode run() is about to fetch; -1 when it is not fetching
Instruction ==
  IF mode = "running" /\ frames # <<>> THEN CodeAt(frame.ip) ELSE -2

\* READ_BYTE()'s operand of the instruction being executed
Operand == CodeAt(frame.ip + 1)

\* READ_SHORT()'s operand of the instruction being executed
Operand16 == (CodeAt(frame.ip + 1) * 256 + CodeAt(frame.ip + 2)) % 65536

\* READ_CONSTANT()
Constant ==
  LET values == chunkOf(frame).constants.values
  IN IF Operand + 1 \in 1 .. Len(values) THEN values[Operand + 1] ELSE UNINIT

\* The VM after the fetch of an instruction of `size` bytes
Fetched(size) == [VM EXCEPT !.frames[Len(frames)].ip = @ + size]

JumpTo(v, ip) == [v EXCEPT !.frames[Len(v.frames)].ip = ip]

Hang(v) == [v EXCEPT !.mode = "hang"]

UndefinedVariable(name) ==
  [format |-> "Undefined variable '%s'.", args |-> <<name.chars>>]

OperandsMustBeNumbers == [format |-> "Operands must be numbers.", args |-> <<>>]

\* a / b on the integers that model the doubles
Quotient(a, b) == IF b = 0 THEN 0 ELSE a \div b

\* BINARY_OP that tests the right operand only and takes a left operand
\* that is not a number for 0
BINARY_OPRight(v, op, newBase) ==
  LET b == peek(v, 0)
      a == peek(v, 1)
  IN IF a = UNINIT \/ b = UNINIT THEN Fault(v)
     ELSE IF ~IS_NUMBER(b)
     THEN RuntimeErrorResult(v, OperandsMustBeNumbers)
     ELSE LET x == IF IS_NUMBER(a) THEN a.number ELSE 0
              y == b.number
          IN push(pop(pop(v, newBase).v, newBase).v,
                  CASE op = ">" -> BOOL_VAL(x > y)
                    [] op = "<" -> BOOL_VAL(x < y)
                    [] op = "-" -> NUMBER_VAL(x - y)
                    [] op = "*" -> NUMBER_VAL(x * y)
                    [] op = "/" -> NUMBER_VAL(Quotient(x, y)),
                  newBase)

\* BINARY_OP(valueType, op)
BINARY_OP(v, op, newBase) ==
  LET b == peek(v, 0)
      a == peek(v, 1)
  IN IF a = UNINIT \/ b = UNINIT THEN Fault(v)
     ELSE IF ~IS_NUMBER(b) \/ ~IS_NUMBER(a)
     THEN RuntimeErrorResult(v, OperandsMustBeNumbers)
     ELSE LET x == a.number
              y == b.number
          IN push(pop(pop(v, newBase).v, newBase).v,
                  CASE op = ">" -> BOOL_VAL(x > y)
                    [] op = "<" -> BOOL_VAL(x < y)
                    [] op = "-" -> NUMBER_VAL(x - y)
                    [] op = "*" -> NUMBER_VAL(x * y)
                    [] op = "/" -> NUMBER_VAL(Quotient(x, y)),
                  newBase)

\* concatenate()
\* concatenate with the operands copied in the order they are popped
concatenateRightFirst(v, newBase) ==
  LET Join(pa, b) ==
        push(pa.v, OBJ_VAL(takeString(b.obj.chars \o pa.value.obj.chars)),
             newBase)
      Second(pb) == Join(pop(pb.v, newBase), pb.value)
  IN Second(pop(v, newBase))

concatenate(v, newBase) ==
  LET Join(pa, b) ==
        push(pa.v, OBJ_VAL(takeString(pa.value.obj.chars \o b.obj.chars)),
             newBase)
      Second(pb) == Join(pop(pb.v, newBase), pb.value)
  IN Second(pop(v, newBase))

OpConstant ==
  /\ Instruction = OP_CONSTANT
  /\ \E nb \in Bases : Commit(push(Fetched(2), Constant, nb))
  /\ UNCHANGED <<source, calls, strings, objects, compiling>>

OpNil ==
  /\ Instruction = OP_NIL
  /\ \E nb \in Bases : Commit(push(Fetched(1), NIL_VAL, nb))
  /\ UNCHANGED <<source, calls, strings, objects, compiling>>

OpTrue ==
  /\ Instruction = OP_TRUE
  /\ \E nb \in Bases : Commit(push(Fetched(1), BOOL_VAL(TRUE), nb))
  /\ UNCHANGED <<source, calls, strings, objects, compiling>>

OpFalse ==
  /\ Instruction = OP_FALSE
  /\ \E nb \in Bases : Commit(push(Fetched(1), BOOL_VAL(FALSE), nb))
  /\ UNCHANGED <<source, calls, strings, objects, compiling>>

OpPop ==
  /\ Instruction = OP_POP
  /\ \E nb \in Bases : Commit(pop(Fetched(1), nb).v)
  /\ UNCHANGED <<source, calls, strings, objects, compiling>>

OpGetGlobal ==
  /\ Instruction = OP_GET_GLOBAL
  /\ \E nb \in Bases :
       LET v == Fetched(2)
           name == Constant
           Got(g) ==
             IF g.hang THEN Hang(v)
             ELSE IF ~g.found
             THEN RuntimeErrorResult(v, UndefinedVariable(name.obj))
             ELSE push(v, g.value, nb)
       IN Commit(IF ~IS_STRING(name) THEN Fault(v)
                 ELSE Got(tableGet(v.globals, name.obj)))
  /\ UNCHANGED <<source, calls, strings, objects, compiling>>

OpGetLocal ==
  /\ Instruction = OP_GET_LOCAL
  /\ \E nb \in Bases :
       LET v == Fetched(2)
       IN Commit(push(v, Load(v, frame.slots + Operand), nb))
  /\ UNCHANGED <<source, calls, strings, objects, compiling>>

OpSetGlobal ==
  /\ Instruction = OP_SET_GLOBAL
  /\ \E garbage \in GarbageInts :
       LET v == Fetched(2)
           name == Constant
           Deleted(d) ==
             IF d.hang THEN Hang(v)
             ELSE RuntimeErrorResult([v EXCEPT !.globals = d.table],
                                     UndefinedVariable(name.obj))
           Set(s) ==
             IF s.hang THEN Hang(v)
             ELSE IF s.isNewKey THEN Deleted(tableDelete(s.table, name.obj))
             ELSE [v EXCEPT !.globals = s.table]
       IN Commit(IF ~IS_STRING(name) THEN Fault(v)
                 ELSE Set(tableSet(v.globals, name.obj, peek(v, 0), garbage)))
  /\ UNCHANGED <<source, calls, strings, objects, compiling>>

OpSetLocal ==
  /\ Instruction = OP_SET_LOCAL
  /\ LET v == Fetched(2)
     IN Commit(Store(v, frame.slots + Operand, peek(v, 0)))
  /\ UNCHANGED <<source, calls, strings, objects, compiling>>

OpDefineGlobal ==
  /\ Instruction = OP_DEFINE_GLOBAL
  /\ \E nb \in Bases, garbage \in GarbageInts :
       LET v == Fetched(2)
           name == Constant
           Set(s) ==
             IF s.hang THEN Hang(v)
             ELSE pop([v EXCEPT !.globals = s.table], nb).v
       IN Commit(IF ~IS_STRING(name) THEN Fault(v)
                 ELSE Set(tableSet(v.globals, name.obj, peek(v, 0), garbage)))
  /\ UNCHANGED <<source, calls, strings, objects, compiling>>

OpEqual ==
  /\ Instruction = OP_EQUAL
  /\ \E nb \in Bases, undefined \in UndefinedComparisons :
       LET Compare(pa, b) ==
             IF valuesEqualDefined(pa.value, b)
             THEN push(pa.v, BOOL_VAL(valuesEqual(pa.value, b)), nb)
             ELSE IF undefined = "fault" THEN Fault(pa.v)
             ELSE push(pa.v, BOOL_VAL(undefined = "true"), nb)
           Second(pb) == Compare(pop(pb.v, nb), pb.value)
       IN Commit(Second(pop(Fetched(1), nb)))
  /\ UNCHANGED <<source, calls, strings, objects, compiling>>

OpGreater ==
  /\ Instruction = OP_GREATER
  /\ \E nb \in Bases : Commit(BINARY_OP(Fetched(1), ">", nb))
  /\ UNCHANGED <<source, calls, strings, objects, compiling>>

OpLess ==
  /\ Instruction = OP_LESS
  /\ \E nb \in Bases : Commit(BINARY_OP(Fetched(1), "<", nb))
  /\ UNCHANGED <<source, calls, strings, objects, compiling>>

OpAdd ==
  /\ Instruction = OP_ADD
  /\ \E nb \in Bases :
       LET v == Fetched(1)
           b == peek(v, 0)
           a == peek(v, 1)
       IN Commit(
            IF a = UNINIT \/ b = UNINIT THEN Fault(v)
            ELSE IF IS_STRING(b) /\ IS_STRING(a) THEN concatenate(v, nb)
            ELSE IF IS_NUMBER(b) /\ IS_NUMBER(a)
            THEN push(pop(pop(v, nb).v, nb).v,
                      NUMBER_VAL(a.number + b.number), nb)
            ELSE RuntimeErrorResult(v,
                   [format |-> "Operands must be two numbers or two strings.",
                    args |-> <<>>]))
  /\ UNCHANGED <<source, calls, strings, objects, compiling>>

OpSubtract ==
  /\ Instruction = OP_SUBTRACT
  /\ \E nb \in Bases : Commit(BINARY_OP(Fetched(1), "-", nb))
  /\ UNCHANGED <<source, calls, strings, objects, compiling>>

OpMultiply ==
  /\ Instruction = OP_MULTIPLY
  /\ \E nb \in Bases : Commit(BINARY_OP(Fetched(1), "*", nb))
  /\ UNCHANGED <<source, calls, strings, objects, compiling>>

OpDivide ==
  /\ Instruction = OP_DIVIDE
  /\ \E nb \in Bases : Commit(BINARY_OP(Fetched(1), "/", nb))
  /\ UNCHANGED <<source, calls, strings, objects, compiling>>

OpNot ==
  /\ Instruction = OP_NOT
  /\ \E nb \in Bases :
       LET Popped(p) ==
             IF p.value = UNINIT THEN Fault(p.v)
             ELSE push(p.v, BOOL_VAL(isFalsey(p.value)), nb)
       IN Commit(Popped(pop(Fetched(1), nb)))
  /\ UNCHANGED <<source, calls, strings, objects, compiling>>

OpNegate ==
  /\ Instruction = OP_NEGATE
  /\ \E nb \in Bases :
       LET v == Fetched(1)
           a == peek(v, 0)
       IN Commit(IF a = UNINIT THEN Fault(v)
                 ELSE IF ~IS_NUMBER(a)
                 THEN RuntimeErrorResult(v,
                        [format |-> "Operand must be a number.",
                         args |-> <<>>])
                 ELSE push(pop(v, nb).v, NUMBER_VAL(-a.number), nb))
  /\ UNCHANGED <<source, calls, strings, objects, compiling>>

OpPrint ==
  /\ Instruction = OP_PRINT
  /\ \E nb \in Bases :
       LET Popped(p) ==
             IF p.value = UNINIT THEN Fault(p.v)
             ELSE [p.v EXCEPT !.out = Append(@, p.value)]
       IN Commit(Popped(pop(Fetched(1), nb)))
  /\ UNCHANGED <<source, calls, strings, objects, compiling>>

OpJump ==
  /\ Instruction = OP_JUMP
  /\ LET v == Fetched(3)
     IN Commit(JumpTo(v, frame.ip + 3 + Operand16))
  /\ UNCHANGED <<source, calls, strings, objects, compiling>>

OpLoop ==
  /\ Instruction = OP_LOOP
  /\ LET v == Fetched(3)
     IN Commit(JumpTo(v, frame.ip + 3 - Operand16))
  /\ UNCHANGED <<source, calls, strings, objects, compiling>>

OpJumpIfFalse ==
  /\ Instruction = OP_JUMP_IF_FALSE
  /\ LET v == Fetched(3)
     IN Commit(IF peek(v, 0) = UNINIT THEN Fault(v)
               ELSE IF isFalsey(peek(v, 0))
               THEN JumpTo(v, frame.ip + 3 + Operand16)
               ELSE v)
  /\ UNCHANGED <<source, calls, strings, objects, compiling>>

OpCall ==
  /\ Instruction = OP_CALL
  /\ \E nb \in Bases, seconds \in ClockValues :
       LET v == Fetched(2)
           argCount == Operand
           Called(r) ==
             IF r.ok \/ r.v.mode = "fault" THEN r.v
             ELSE [r.v EXCEPT !.mode = "idle",
                              !.result = "INTERPRET_RUNTIME_ERROR"]
       IN Commit(Called(callValue(v, peek(v, argCount), argCount, nb,
                                  seconds)))
  /\ UNCHANGED <<source, calls, strings, objects, compiling>>

\* OP_RETURN with `frame` updated to the caller's frame before
\* `vm.stackTop = frame->slots`
OpReturnToCallerSlots ==
  /\ Instruction = OP_RETURN
  /\ \E nb \in Bases :
       LET Discard(v1, value) ==
             IF frameCount(v1) = 0
             THEN [pop(v1, nb).v EXCEPT !.mode = "idle",
                                        !.result = "INTERPRET_OK"]
             ELSE push([v1 EXCEPT !.stackTop = v1.frames[Len(v1.frames)].slots],
                       value, nb)
           Result(p) ==
             Discard([p.v EXCEPT !.frames = SubSeq(@, 1, Len(@) - 1)],
                     p.value)
       IN Commit(Result(pop(Fetched(1), nb)))
  /\ UNCHANGED <<source, calls, strings, objects, compiling>>

OpReturn ==
  /\ Instruction = OP_RETURN
  /\ \E nb \in Bases :
       LET Discard(v1, slots, value) ==
             IF frameCount(v1) = 0
             THEN [pop(v1, nb).v EXCEPT !.mode = "idle",
                                        !.result = "INTERPRET_OK"]
             ELSE push([v1 EXCEPT !.stackTop = slots], value, nb)
           Result(p) ==
             Discard([p.v EXCEPT !.frames = SubSeq(@, 1, Len(@) - 1)],
                     p.v.frames[Len(p.v.frames)].slots, p.value)
       IN Commit(Result(pop(Fetched(1), nb)))
  /\ UNCHANGED <<source, calls, strings, objects, compiling>>

\* The opcodes case labels of run()'s switch
Handled ==
  {OP_CONSTANT, OP_NIL, OP_TRUE, OP_FALSE, OP_POP, OP_GET_GLOBAL,
   OP_GET_LOCAL, OP_SET_GLOBAL, OP_SET_LOCAL, OP_DEFINE_GLOBAL, OP_EQUAL,
   OP_GREATER, OP_LESS, OP_ADD, OP_SUBTRACT, OP_MULTIPLY, OP_DIVIDE, OP_NOT,
   OP_NEGATE, OP_PRINT, OP_JUMP, OP_LOOP, OP_JUMP_IF_FALSE, OP_CALL,
   OP_RETURN}

\* A byte with no case label: the switch has no default, and the loop goes
\* on to the next byte.  A fetch outside the chunk is undefined.
OpOther ==
  /\ Instruction >= -1
  /\ Instruction \notin Handled
  /\ Commit(IF Instruction = -1 THEN Fault(VM) ELSE Fetched(1))
  /\ UNCHANGED <<source, calls, strings, objects, compiling>>

\* ---------------------------------------------------------------- sources
\* A source text is written as the sequence of its lexemes; Lex gives the
\* token of each.

Keywords ==
  [w \in {"and", "else", "false", "for", "fun", "if", "nil", "or", "print",
          "return", "true", "var", "while"} |->
     CASE w = "and" -> "TOKEN_AND" [] w = "else" -> "TOKEN_ELSE"
       [] w = "false" -> "TOKEN_FALSE" [] w = "for" -> "TOKEN_FOR"
       [] w = "fun" -> "TOKEN_FUN" [] w = "if" -> "TOKEN_IF"
       [] w = "nil" -> "TOKEN_NIL" [] w = "or" -> "TOKEN_OR"
       [] w = "print" -> "TOKEN_PRINT" [] w = "return" -> "TOKEN_RETURN"
       [] w = "true" -> "TOKEN_TRUE" [] w = "var" -> "TOKEN_VAR"
       [] w = "while" -> "TOKEN_WHILE"]

Punctuation ==
  [w \in {"(", ")", "{", "}", ",", "-", "+", ";", "/", "*", "!", "!=", "=",
          "==", ">", ">=", "<", "<="} |->
     CASE w = "(" -> "TOKEN_LEFT_PAREN" [] w = ")" -> "TOKEN_RIGHT_PAREN"
       [] w = "{" -> "TOKEN_LEFT_BRACE" [] w = "}" -> "TOKEN_RIGHT_BRACE"
       [] w = "," -> "TOKEN_COMMA" [] w = "-" -> "TOKEN_MINUS"
       [] w = "+" -> "TOKEN_PLUS" [] w = ";" -> "TOKEN_SEMICOLON"
       [] w = "/" -> "TOKEN_SLASH" [] w = "*" -> "TOKEN_STAR"
       [] w = "!" -> "TOKEN_BANG" [] w = "!=" -> "TOKEN_BANG_EQUAL"
       [] w = "=" -> "TOKEN_EQUAL" [] w = "==" -> "TOKEN_EQUAL_EQUAL"
       [] w = ">" -> "TOKEN_GREATER" [] w = ">=" -> "TOKEN_GREATER_EQUAL"
       [] w = "<" -> "TOKEN_LESS" [] w = "<=" -> "TOKEN_LESS_EQUAL"]

Digits == {"0", "1", "2", "3", "4", "5", "6", "7", "8", "9"}

Lex(w) ==
  IF w \in DOMAIN Keywords THEN Tok(Keywords[w], w)
  ELSE IF w \in DOMAIN Punctuation THEN Tok(Punctuation[w], w)
  ELSE IF w \in Digits THEN Num(<<w>>)
  ELSE IF w = "'a'" THEN Str(<<"a">>)
  ELSE IF w = "'b'" THEN Str(<<"b">>)
  ELSE IF w = "clock" THEN Id(<<"c", "l", "o", "c", "k">>)
  ELSE IF w = "fib" THEN Id(<<"f", "i", "b">>)
  ELSE IF w = "10" THEN Num(<<"1", "0">>)
  ELSE Id(<<w>>)

Source(words) == [i \in 1 .. Len(words) |-> Lex(words[i])]

\* print 1 + 2 * 3; print 8 / 2 - 1 > 2 != (1 <= 2);
\* print 'a' + 'b' == 'a'; print -clock() < 1;
PrintExpressions ==
  <<"print", "1", "+", "2", "*", "3", ";",
    "print", "8", "/", "2", "-", "1", ">", "2", "!=", "(", "1", "<=", "2",
    ")", ";",
    "print", "'a'", "+", "'b'", "==", "'a'", ";",
    "print", "-", "clock", "(", ")", "<", "1", ";">>

\* 7;
ExpressionOnly == <<"7", ";">>

\* print ;
PrintNothing == <<"print", ";">>

\* fun f() {}
FunOnly == <<"fun", "f", "(", ")", "{", "}">>

\* fun m() { var n = 0; fun i() { n = n + 1; return n; } return i; }
\* var c = m(); print c(); print c();
Counter ==
  <<"fun", "m", "(", ")", "{", "var", "n", "=", "0", ";",
    "fun", "i", "(", ")", "{", "n", "=", "n", "+", "1", ";",
    "return", "n", ";", "}", "return", "i", ";", "}",
    "var", "c", "=", "m", "(", ")", ";",
    "print", "c", "(", ")", ";", "print", "c", "(", ")", ";">>

\* var x = 1; { var x = 2; print x; } print x;
Shadow ==
  <<"var", "x", "=", "1", ";", "{", "var", "x", "=", "2", ";",
    "print", "x", ";", "}", "print", "x", ";">>

\* { var x = 1; { var x = 2; print x; } print x; }
ShadowInBlock == <<"{">> \o Shadow \o <<"}">>

\* { 7; var x = 1; { var x = 2; print x; } print x; }
ShadowAfterExpression == <<"{", "7", ";">> \o Shadow \o <<"}">>

\* print true and 2;
PrintAnd == <<"print", "true", "and", "2", ";">>

\* print nil or 2;
PrintOr == <<"print", "nil", "or", "2", ";">>

\* var a = 1; var p; var q; var r; var s; var t; var u; print y;
GetUndefined ==
  <<"var", "a", "=", "1", ";", "var", "p", ";", "var", "q", ";",
    "var", "r", ";", "var", "s", ";", "var", "t", ";", "var", "u", ";",
    "print", "y", ";">>

\* var b = 1; { y = 2; }
SetUndefined == <<"var", "b", "=", "1", ";", "{", "y", "=", "2", ";", "}">>

\* print a; print b;
PrintGlobals == <<"print", "a", ";", "print", "b", ";">>

\* 1();
CallNumber == <<"1", "(", ")", ";">>

\* fun f() {} f(1);
CallArity == <<"fun", "f", "(", ")", "{", "}", "f", "(", "1", ")", ";">>

\* { var x = 1; if (x == 1) { x = false; print x; } else print 1; }
\* var i = 0; while (i < 2) { print i; i = i + 1; }
ControlFlow ==
  <<"{", "var", "x", "=", "1", ";", "if", "(", "x", "==", "1", ")",
    "{", "x", "=", "false", ";", "print", "x", ";", "}",
    "else", "print", "1", ";", "}",
    "var", "i", "=", "0", ";", "while", "(", "i", "<", "2", ")", "{",
    "print", "i", ";", "i", "=", "i", "+", "1", ";", "}">>

\* fun f() {} if (b == 1) { b = 2; f(); } print b;
CallOnce ==
  <<"fun", "f", "(", ")", "{", "}", "if", "(", "b", "==", "1", ")", "{",
    "b", "=", "2", ";", "f", "(", ")", ";", "}", "print", "b", ";">>

\* print nil == nil; print 1 == nil; print clock == clock;
\* print 'a' + 'b'; print 'a' + 1;
EqualAndAdd ==
  <<"print", "nil", "==", "nil", ";", "print", "1", "==", "nil", ";",
    "print", "clock", "==", "clock", ";",
    "print", "'a'", "+", "'b'", ";", "print", "'a'", "+", "1", ";">>

Fib ==
  <<"fun", "fib", "(", "n", ")", "{",
    "if", "(", "n", "<", "2", ")", "return", "n", ";",
    "return", "fib", "(", "n", "-", "1", ")", "+",
              "fib", "(", "n", "-", "2", ")", ";", "}",
    "print", "fib", "(", "10", ")", ";">>

ReturnFromScript == <<"return", "1", ";">>

Assign ==
  <<"var", "a", "=", "1", ";", "print", "a", "=", "2", ";", "print", "a", ";",
    "{", "var", "b", "=", "1", ";", "print", "b", "=", "2", ";",
    "print", "b", ";", "}">>

\* { var a = 1; var b = 2; fun g() { print a; print b; } }
BlockCapture ==
  <<"{", "var", "a", "=", "1", ";", "var", "b", "=", "2", ";",
    "fun", "g", "(", ")", "{", "print", "a", ";", "print", "b", ";", "}",
    "}">>

Programs ==
  {BlockCapture, Assign, ReturnFromScript, Fib, EqualAndAdd, PrintExpressions, ExpressionOnly, PrintNothing, FunOnly, Counter, Shadow,
   ShadowInBlock, ShadowAfterExpression, PrintAnd, PrintOr, GetUndefined,
   SetUndefined, PrintGlobals, CallNumber, CallArity, ControlFlow, CallOnce}

\* ------------------------------------------------------ the state machine

\* The process after initVM
Started ==
  /\ \E nb \in Bases, garbage \in GarbageInts :
       LET v == initVM(nb, garbage)
           interned == internString(initTable, <<>>,
                                    <<"c", "l", "o", "c", "k">>, garbage)
       IN /\ stack = v.stack
          /\ stackBase = v.stackBase
          /\ stackTop = v.stackTop
          /\ stackCapacity = v.stackCapacity
          /\ frames = v.frames
          /\ globals = v.globals
          /\ functions = v.functions
          /\ mode = v.mode
          /\ result = v.result
          /\ out = v.out
          /\ err = v.err
          /\ strings = interned.strings
          /\ objects = interned.objects
  /\ source = <<>>
  /\ calls = 0

Init == Started /\ compiling = NULL

\* interpret, from the return of compile to the entry of run(); `comp` is
\* what compile returned
interpret(v, comp, newBase) ==
  LET Run(v1, fn) ==
        IF v1.mode # "idle" THEN v1
        ELSE [call(v1, fn.id, 0).v EXCEPT !.mode = "running",
                                                !.result = "NONE"]
      Compiled(v0, fn, exited) ==
        IF exited THEN [v0 EXCEPT !.mode = "exited"]
        ELSE IF fn = NULL
        THEN [v0 EXCEPT !.result = "INTERPRET_COMPILER_ERROR"]
        ELSE Run(push(v0, OBJ_VAL(fn), newBase), fn)
  IN Compiled([v EXCEPT !.functions = comp.functions,
                        !.out = <<>>, !.err = comp.stderr],
              comp.function, comp.exited)

\* interpret(source), up to the entry of run()
Interpret ==
  /\ mode = "idle"
  /\ calls < MaxCalls
  /\ \E words \in Programs, nb \in Bases :
       /\ source' = words
       /\ Commit(interpret(VM, compile(Source(words), functions), nb))
  /\ calls' = calls + 1
  /\ UNCHANGED <<strings, objects, compiling>>

Next ==
  \/ Interpret
  \/ OpConstant
  \/ OpNil
  \/ OpTrue
  \/ OpFalse
  \/ OpPop
  \/ OpGetGlobal
  \/ OpGetLocal
  \/ OpSetGlobal
  \/ OpSetLocal
  \/ OpDefineGlobal
  \/ OpEqual
  \/ OpGreater
  \/ OpLess
  \/ OpAdd
  \/ OpSubtract
  \/ OpMultiply
  \/ OpDivide
  \/ OpNot
  \/ OpNegate
  \/ OpPrint
  \/ OpJump
  \/ OpLoop
  \/ OpJumpIfFalse
  \/ OpCall
  \/ OpReturn
  \/ OpOther

Spec == Init /\ [][Next]_vars

\* ------------------------------------------------------------------ debug

\* closureInstruction: the offset after OP_CLOSURE, its constant and the
\* operand pairs of the function the constant names
closureInstruction(fns, chunk, offset) ==
  LET constant == chunk.code[offset + 2]
      values == chunk.constants.values
      fn == IF constant + 1 \in 1 .. Len(values)
            THEN values[constant + 1] ELSE UNINIT
  IN IF isObjType(fn, "OBJ_FUNCTION")
     THEN offset + 2 + 2 * fns[fn.obj.id].upvalueCount
     ELSE offset + 2

\* disassembleInstruction: the offset of the next instruction
disassembleInstruction(fns, chunk, offset) ==
  LET instruction == chunk.code[offset + 1]
  IN CASE instruction \in {OP_CONSTANT, OP_GET_LOCAL, OP_SET_LOCAL,
                           OP_DEFINE_GLOBAL, OP_GET_GLOBAL, OP_SET_GLOBAL,
                           OP_CALL, OP_GET_UPVALUE, OP_SET_UPVALUE} ->
            offset + 2
       [] instruction \in {OP_JUMP, OP_JUMP_IF_FALSE, OP_LOOP} -> offset + 3
       [] instruction = OP_CLOSURE -> closureInstruction(fns, chunk, offset)
       [] OTHER -> offset + 1

\* The offsets disassembleChunk visits from `offset` on: the instruction
\* starts of the chunk
RECURSIVE disassembleChunk(_, _, _)
disassembleChunk(fns, chunk, offset) ==
  IF offset >= Len(chunk.code) THEN {}
  ELSE {offset}
         \cup disassembleChunk(fns, chunk,
                               disassembleInstruction(fns, chunk, offset))

\* ------------------------------------------------------- the intern table

\* The characters of the strings that are created
Contents ==
  {<<"a">>, <<"b">>, <<"i">>, <<"x">>, <<"a", "b">>,
   <<"s", "X", "b", "s", "s", "r">>}

\* The creation of a string: copyString or takeString
InternString ==
  /\ mode = "idle"
  /\ Len(objects) < MaxObjects
  /\ \E chars \in Contents, garbage \in GarbageInts :
       LET interned == internString(strings, objects, chars, garbage)
       IN /\ strings' = interned.strings
          /\ objects' = interned.objects
          /\ mode' = IF interned.hang THEN "hang" ELSE mode
  /\ UNCHANGED <<stack, stackBase, stackTop, stackCapacity, frames, globals,
                 functions, result, out, err, source, calls, compiling>>

NextStrings == InternString

SpecStrings == Init /\ [][NextStrings]_vars

\* ------------------------------------------------------------ long jumps
\* The compilation of `while (true) { nil; ... nil; <statements> }`, from
\* the return of statement() in whileStatement (compiler.c:793) on.  The
\* body is UINT16_MAX - 8 statements `nil;` and then up to MaxStatements
\* statements `nil;` or `true;`, each of which compiles to its one opcode.

RECURSIVE grownTo(_, _)
grownTo(capacity, count) ==
  IF capacity >= count THEN capacity
  ELSE grownTo(GROW_CAPACITY(capacity), count)

\* The compiler's state at the return of statement() in whileStatement
inWhileStatement(heap, statements) ==
  LET c == compileStart(<<>>, heap)
      code == <<OP_TRUE, OP_JUMP_IF_FALSE, 255, 255, OP_POP>>
              \o [i \in 1 .. UINT16_MAX - 8 |-> OP_NIL] \o statements
  IN [c EXCEPT
        !.parser.previous = Tok("TOKEN_RIGHT_BRACE", "}"),
        !.functions[cur(c).function].chunk =
           [@ EXCEPT !.code = code,
                     !.lines = [i \in 1 .. Len(code) |-> 1],
                     !.capacity = grownTo(0, Len(code))]]

\* 16-bit operand at offset `at` of the code
operandAt(code, at) == code[at + 1] * 256 + code[at + 2]

InitJumps ==
  /\ Started
  /\ \E k \in 0 .. MaxStatements :
       \E statements \in [1 .. k -> {OP_NIL, OP_TRUE}] :
         compiling = [statements |-> statements, compiled |-> FALSE]

\* The rest of whileStatement
endWhileStatement(c, loopStart, exitJump) ==
  emitByte(patchJump(emitLoop(c, loopStart), exitJump), OP_POP)

\* The rest of whileStatement, of compile and of interpret, up to the
\* entry of run().  `compiling` keeps of the outcome: the size of the
\* chunk, the operands of its two jumps, the diagnostics, and what
\* interpret does with what compile returned.
CompileWhile ==
  /\ compiling # NULL
  /\ ~compiling.compiled
  /\ \E nb \in Bases :
       LET c == endWhileStatement(
                  inWhileStatement(functions, compiling.statements), 0, 2)
           Outcome(comp) ==
             LET code == comp.functions[Len(comp.functions)].chunk.code
                 v == interpret(VM, comp, nb)
             IN [statements |-> compiling.statements,
                 compiled |-> TRUE,
                 count |-> Len(code),
                 exitJump |-> operandAt(code, 2),
                 loop |-> operandAt(code, Len(code) - 5),
                 stderr |-> comp.stderr,
                 function |-> comp.function,
                 result |-> v.result,
                 mode |-> v.mode]
       IN compiling' = Outcome(compileEnd(compileLoop(c)))
  /\ UNCHANGED <<stack, stackBase, stackTop, stackCapacity, frames, globals,
                 functions, mode, result, out, err, source, calls, strings,
                 objects>>

NextJumps == CompileWhile

SpecJumps == InitJumps /\ [][NextJumps]_vars

\* --------------------------------------------------- the constant pool
\* The compilation of `1; ... 1; <rest>`: every statement `1;` adds one
\* constant to the pool of the script's chunk, and `rest` one or two more.

MaxNumbers == 256

\* The compiler's state after n statements `1;` of the script, with `rest`
\* to come: each of them is compiled to OP_CONSTANT and the index at which
\* its constant was stored
afterNumbers(heap, n, rest) ==
  LET Filled(c) ==
        [c EXCEPT
           !.parser.previous = Tok("TOKEN_SEMICOLON", ";"),
           !.functions[cur(c).function].chunk =
              [@ EXCEPT
                 !.code = [i \in 1 .. 2 * n |->
                             IF i % 2 = 1 THEN OP_CONSTANT
                             ELSE ((i \div 2) - 1) % 256],
                 !.lines = [i \in 1 .. 2 * n |-> 1],
                 !.capacity = grownTo(0, 2 * n),
                 !.constants = [capacity |-> grownTo(0, n),
                                values |-> [i \in 1 .. n |-> NUMBER_VAL(1)]]]]
  IN Filled(advance(compileStart(rest, heap)))

\* One statement for each opcode with a one-byte constant operand
Rests ==
  {<<"print", "7", ";">>,
   <<"var", "a", "=", "7", ";">>,
   <<"a", "=", "7", ";">>,
   <<"print", "a", ";">>,
   <<"fun", "f", "(", ")", "{", "}">>}

ConstantOpcodes ==
  {OP_CONSTANT, OP_GET_GLOBAL, OP_SET_GLOBAL, OP_DEFINE_GLOBAL, OP_CLOSURE}

InitConstants ==
  /\ Started
  /\ \E n \in MaxNumbers - 3 .. MaxNumbers, rest \in Rests :
       compiling = [numbers |-> n, rest |-> rest, compiled |-> FALSE]

\* compile and interpret, up to the entry of run().  `compiling` keeps of
\* the outcome: the size of the pool, the pool indices at which the
\* constants of `rest` were stored, the operands emitted for them, the
\* diagnostics, and what interpret does with what compile returned.
CompileConstants ==
  /\ compiling # NULL
  /\ ~compiling.compiled
  /\ \E nb \in Bases :
       LET Operands(fns, chunk, starts) ==
             {chunk.code[o + 2] :
                o \in {a \in starts : chunk.code[a + 1] \in ConstantOpcodes}}
           Emitted(fns, chunk) ==
             [count |-> Len(chunk.constants.values),
              stored |->
                compiling.numbers .. Len(chunk.constants.values) - 1,
              operands |->
                Operands(fns, chunk,
                         disassembleChunk(fns, chunk,
                                          2 * compiling.numbers))]
           Interpreted(v) == [result |-> v.result, mode |-> v.mode]
           Outcome(comp) ==
             [numbers |-> compiling.numbers,
              rest |-> compiling.rest,
              compiled |-> TRUE,
              stderr |-> comp.stderr,
              function |-> comp.function]
               @@ Emitted(comp.functions,
                          comp.functions[Len(functions) + 1].chunk)
               @@ Interpreted(interpret(VM, comp, nb))
       IN compiling' =
            Outcome(compileEnd(compileLoop(
              afterNumbers(functions, compiling.numbers,
                           Source(compiling.rest)))))
  /\ UNCHANGED <<stack, stackBase, stackTop, stackCapacity, frames, globals,
                 functions, mode, result, out, err, source, calls, strings,
                 objects>>

NextConstants == CompileConstants

SpecConstants == InitConstants /\ [][NextConstants]_vars

\* ------------------------------------------------------------ panic mode
\* The compilation of a short sequence of tokens, one declaration of the
\* loop of compile at a time.  `compiling` holds the compiler's state and
\* its state at the test of panicMode in the declaration compiled last.

MaxTokens == 5

ErrorToken == ErrTok(<<"Unexpected character.">>)

PanicTokens == {Lex("+"), Lex("1"), Lex(";"), Lex("print"), ErrorToken}

InitPanic ==
  /\ Started
  /\ \E k \in 0 .. MaxTokens :
       \E tokens \in [1 .. k -> PanicTokens] :
         LET Primed(c) == [c |-> c, before |-> c]
         IN compiling = Primed(advance(compileStart(tokens, functions)))

\* One turn of the loop of compile
Declaration ==
  /\ compiling # NULL
  /\ ~compiling.c.exited
  /\ ~check(compiling.c, "TOKEN_EOF")
  /\ LET Declared(b) == [c |-> synchronizeIfPanic(b), before |-> b]
     IN compiling' = Declared(declared(compiling.c))
  /\ UNCHANGED <<stack, stackBase, stackTop, stackCapacity, frames, globals,
                 functions, mode, result, out, err, source, calls, strings,
                 objects>>

NextPanic == Declaration

SpecPanic == InitPanic /\ [][NextPanic]_vars

\* --------------------------------------------------------------- branches
\* The calls the compiler makes for one forward jump and one loop around
\* it, each an action, and then the run of the chunk: the jump instruction
\* (behind the condition `false` when it is JUMP_IF_FALSE), the code it
\* skips, its patch, and the LOOP back to the start when there is one.
\* `compiling` holds the compiler's state with the values of the locals of
\* the statement being compiled: the offset emitJump returned, loopStart,
\* and the count of the chunk at the call of patchJump.

MaxBody == 2

\* The number of bytes between the jump and its target
Bodies ==
  0 .. MaxBody
    \cup {249, 250, 251, 255, 256, 257,
          UINT16_MAX - 6, UINT16_MAX - 1, UINT16_MAX}

\* The compiler's state after n statements `nil;`: literal emits OP_NIL
\* for each of them
nilStatements(c, n) ==
  [c EXCEPT
     !.functions[cur(c).function].chunk =
        [@ EXCEPT
           !.code = @ \o [i \in 1 .. n |-> OP_NIL],
           !.lines = @ \o [i \in 1 .. n |-> c.parser.previous.line],
           !.capacity = grownTo(@, chunkCount(c) + n)]]

InitBranches ==
  /\ Started
  /\ \E instruction \in {OP_JUMP, OP_JUMP_IF_FALSE}, n \in Bodies,
        loop \in BOOLEAN :
       /\ loop => instruction = OP_JUMP
       /\ compiling =
            [c |-> advance(compileStart(<<>>, functions)),
             phase |-> "start", instruction |-> instruction, body |-> n,
             loop |-> loop, loopStart |-> 0, offset |-> 0, target |-> 0]

\* loopStart = count; expression(); emitJump(instruction)
EmitJump ==
  /\ compiling # NULL
  /\ compiling.phase = "start"
  /\ LET Emitted(loopStart, m) ==
           [compiling EXCEPT !.c = m.c, !.offset = m.v,
                             !.loopStart = loopStart, !.phase = "body"]
         Condition(c) ==
           IF compiling.instruction = OP_JUMP_IF_FALSE
           THEN emitByte(c, OP_FALSE) ELSE c
     IN compiling' =
          Emitted(chunkCount(compiling.c),
                  emitJump(Condition(compiling.c), compiling.instruction))
  /\ UNCHANGED <<stack, stackBase, stackTop, stackCapacity, frames, globals,
                 functions, mode, result, out, err, source, calls, strings,
                 objects>>

\* statement(): the code the jump skips
Statements ==
  /\ compiling # NULL
  /\ compiling.phase = "body"
  /\ compiling' =
       [compiling EXCEPT !.c = nilStatements(@, compiling.body),
                         !.phase = "patch"]
  /\ UNCHANGED <<stack, stackBase, stackTop, stackCapacity, frames, globals,
                 functions, mode, result, out, err, source, calls, strings,
                 objects>>

\* patchJump(offset)
PatchJump ==
  /\ compiling # NULL
  /\ compiling.phase = "patch"
  /\ compiling' =
       [compiling EXCEPT !.c = patchJump(@, compiling.offset),
                         !.target = chunkCount(compiling.c),
                         !.phase = "patched"]
  /\ UNCHANGED <<stack, stackBase, stackTop, stackCapacity, frames, globals,
                 functions, mode, result, out, err, source, calls, strings,
                 objects>>

\* emitLoop(loopStart), when the loop is not too large
EmitLoop ==
  /\ compiling # NULL
  /\ compiling.phase = "patched"
  /\ compiling.loop
  /\ chunkCount(compiling.c) + 1 - compiling.loopStart + 2 <= UINT16_MAX
  /\ compiling' =
       [compiling EXCEPT !.c = emitLoop(@, compiling.loopStart),
                         !.phase = "looped"]
  /\ UNCHANGED <<stack, stackBase, stackTop, stackCapacity, frames, globals,
                 functions, mode, result, out, err, source, calls, strings,
                 objects>>

\* The end of compile and interpret, up to the entry of run()
EndBranches ==
  /\ compiling # NULL
  /\ \/ compiling.phase = "looped"
     \/ compiling.phase = "patched" /\ ~compiling.loop
  /\ \E nb \in Bases :
       Commit(interpret(VM, compileEnd(compileLoop(compiling.c)), nb))
  /\ compiling' =
       [phase |-> "run", instruction |-> compiling.instruction,
        body |-> compiling.body, loop |-> compiling.loop,
        loopStart |-> compiling.loopStart, offset |-> compiling.offset,
        target |-> compiling.target]
  /\ calls' = calls + 1
  /\ UNCHANGED <<source, strings, objects>>

NextBranches ==
  \/ EmitJump
  \/ Statements
  \/ PatchJump
  \/ EmitLoop
  \/ EndBranches
  \/ OpFalse
  \/ OpJumpIfFalse
  \/ OpJump
  \/ OpLoop
  \/ OpNil
  \/ OpReturn

SpecBranches == InitBranches /\ [][NextBranches]_vars

\* --------------------------------------------------- scopes and upvalues
\*
\* The compiler's scope operations applied in the orders the parser can
\* apply them: function() opens a nested compiler and its scope, block
\* statements open and close scopes, a declaration declares a local and
\* defines it after its initializer, and an identifier in an expression
\* is resolved by namedVariable.  compiling.c is the compiler's state,
\* compiling.operations the number of operations applied so far.

MaxOperations == 7
MaxFunctions == 3
MaxDepth == 2

Names == {<<"a">>, <<"b">>}

\* The last local of the current function awaits its initializer
Uninitialized(c) ==
  localCount(c) > 0 /\ cur(c).locals[localCount(c)].depth = -1

\* The scope depth of a function's parameters
ParameterDepth(c) == IF Len(c.compilers) = 1 THEN 0 ELSE 1

Scoped(c, operation, name) ==
  [c |-> c, operations |-> compiling.operations + 1,
   operation |-> operation, name |-> name]

InitScopes ==
  /\ Started
  /\ compiling =
       [c |-> advance(compileStart(<<>>, functions)), operations |-> 0,
        operation |-> "compile", name |-> <<>>]

CanOperate ==
  /\ compiling # NULL
  /\ compiling.operations < MaxOperations
  /\ ~compiling.c.exited

\* function(): initCompiler(&compiler, type); beginScope()
BeginFunction ==
  /\ CanOperate
  /\ ~Uninitialized(compiling.c)
  /\ Len(compiling.c.compilers) < MaxFunctions
  /\ compiling' =
       Scoped(beginScope(initCompiler(compiling.c, TYPE_FUNCTION)),
              "function", <<>>)
  /\ UNCHANGED <<stack, stackBase, stackTop, stackCapacity, frames, globals,
                 functions, mode, result, out, err, source, calls, strings,
                 objects>>

\* statement(): beginScope() before block()
BeginScope ==
  /\ CanOperate
  /\ ~Uninitialized(compiling.c)
  /\ cur(compiling.c).scopeDepth < MaxDepth
  /\ compiling' = Scoped(beginScope(compiling.c), "beginScope", <<>>)
  /\ UNCHANGED <<stack, stackBase, stackTop, stackCapacity, frames, globals,
                 functions, mode, result, out, err, source, calls, strings,
                 objects>>

\* statement(): endScope() after block()
EndScope ==
  /\ CanOperate
  /\ ~Uninitialized(compiling.c)
  /\ cur(compiling.c).scopeDepth > ParameterDepth(compiling.c)
  /\ compiling' = Scoped(endScope(compiling.c), "endScope", <<>>)
  /\ UNCHANGED <<stack, stackBase, stackTop, stackCapacity, frames, globals,
                 functions, mode, result, out, err, source, calls, strings,
                 objects>>

\* parseVariable in a local scope: the identifier is parser.previous
DeclareVariable ==
  /\ CanOperate
  /\ ~Uninitialized(compiling.c)
  /\ cur(compiling.c).scopeDepth > 0
  /\ \E name \in Names :
       compiling' =
         Scoped(declareVariable(
                  [compiling.c EXCEPT !.parser.previous = Id(name)]),
                "declareVariable", name)
  /\ UNCHANGED <<stack, stackBase, stackTop, stackCapacity, frames, globals,
                 functions, mode, result, out, err, source, calls, strings,
                 objects>>

\* defineVariable after the initializer (or the parameter's name)
DefineVariable ==
  /\ CanOperate
  /\ Uninitialized(compiling.c)
  /\ compiling' = Scoped(defineVariable(compiling.c, 0), "defineVariable",
                         cur(compiling.c).locals[localCount(compiling.c)].name)
  /\ UNCHANGED <<stack, stackBase, stackTop, stackCapacity, frames, globals,
                 functions, mode, result, out, err, source, calls, strings,
                 objects>>

\* variable(): an identifier read in an expression
NamedVariable ==
  /\ CanOperate
  /\ \E name \in Names :
       compiling' =
         Scoped(namedVariable(
                  [compiling.c EXCEPT !.parser.previous = Id(name)],
                  name, FALSE),
                "namedVariable", name)
  /\ UNCHANGED <<stack, stackBase, stackTop, stackCapacity, frames, globals,
                 functions, mode, result, out, err, source, calls, strings,
                 objects>>

\* The end of declaration() after a diagnostic
EndDeclaration ==
  /\ CanOperate
  /\ ~Uninitialized(compiling.c)
  /\ compiling.c.parser.panicMode
  /\ compiling' = Scoped(synchronizeIfPanic(compiling.c), "declaration", <<>>)
  /\ UNCHANGED <<stack, stackBase, stackTop, stackCapacity, frames, globals,
                 functions, mode, result, out, err, source, calls, strings,
                 objects>>

NextScopes ==
  \/ BeginFunction
  \/ BeginScope
  \/ EndScope
  \/ DeclareVariable
  \/ DefineVariable
  \/ NamedVariable
  \/ EndDeclaration

SpecScopes == InitScopes /\ [][NextScopes]_vars

\* ----------------------------------------------------- if and while
\*
\* Programs made of one if or one while statement whose branches print, run
\* by the VM's instructions.

MaxIterations == 3

Conditions == {"true", "false", "nil", "0"}

\* if (condition) print 1; [else print 2;] print 3;
IfProgram(condition, else) ==
  <<"if", "(", condition, ")", "print", "1", ";">>
    \o (IF else THEN <<"else", "print", "2", ";">> ELSE <<>>)
    \o <<"print", "3", ";">>

IfPrograms ==
  {IfProgram(condition, else) : condition \in Conditions, else \in BOOLEAN}

Numeral(n) == <<"0", "1", "2", "3", "4", "5", "6", "7", "8", "9">>[n + 1]

\* var i = 0; while (i < n) { print i; i = i + 1; }
WhileProgram(n) ==
  <<"var", "i", "=", "0", ";",
    "while", "(", "i", "<", Numeral(n), ")", "{",
    "print", "i", ";", "i", "=", "i", "+", "1", ";", "}">>

WhilePrograms == {WhileProgram(n) : n \in 0 .. MaxIterations}

\* var i = 9; for (var i = 0; i < n; i = i + 1) print i; print i;
\* var i = 0; for (; i < n; i = i + 1) print i; print i;
ForProgram(n, local) ==
  (IF local
   THEN <<"var", "i", "=", "9", ";", "for", "(", "var", "i", "=", "0", ";">>
   ELSE <<"var", "i", "=", "0", ";", "for", "(", ";">>)
    \o <<"i", "<", Numeral(n), ";", "i", "=", "i", "+", "1", ")",
         "print", "i", ";", "print", "i", ";">>

ForPrograms ==
  {ForProgram(n, local) : n \in 0 .. MaxIterations, local \in BOOLEAN}

\* interpret(source) for an if, a while or a for program, up to the entry of run()
InterpretControl ==
  /\ mode = "idle"
  /\ calls < MaxCalls
  /\ \E words \in IfPrograms \cup WhilePrograms \cup ForPrograms,
        nb \in Bases :
       /\ source' = words
       /\ Commit(interpret(VM, compile(Source(words), functions), nb))
  /\ calls' = calls + 1
  /\ UNCHANGED <<strings, objects, compiling>>

NextControl ==
  \/ InterpretControl
  \/ OpConstant
  \/ OpNil
  \/ OpTrue
  \/ OpFalse
  \/ OpPop
  \/ OpGetGlobal
  \/ OpGetLocal
  \/ OpSetLocal
  \/ OpSetGlobal
  \/ OpDefineGlobal
  \/ OpLess
  \/ OpAdd
  \/ OpPrint
  \/ OpJump
  \/ OpLoop
  \/ OpJumpIfFalse
  \/ OpReturn

SpecControl == Init /\ [][NextControl]_vars

\* ------------------------------------------------------------ expressions
\*
\* Programs that print one expression: a unary or a binary operator on
\* literals, or two binary operators on 8, 4 and 2, run by the VM's
\* instructions in the first interpret call of the process.

Literals == {"nil", "false", "true", "0", "1", "2", "'a'"}

UnaryOperators == {"!", "-"}

BinaryOperators == {"==", "!=", "<", "<=", ">", ">=", "+", "-", "*", "/"}

\* print op a;
UnaryProgram(op, a) == <<"print", op, a, ";">>

\* print a op b;
BinaryProgram(a, op, b) == <<"print", a, op, b, ";">>

\* print 8 op1 4 op2 2;
TernaryProgram(op1, op2) == <<"print", "8", op1, "4", op2, "2", ";">>

ExpressionPrograms ==
  {UnaryProgram(op, a) : op \in UnaryOperators, a \in Literals}
    \cup {BinaryProgram(a, op, b) :
            a \in Literals, op \in BinaryOperators, b \in Literals}
    \cup {TernaryProgram(op1, op2) :
            op1 \in BinaryOperators, op2 \in BinaryOperators}

\* interpret(source) for an expression program, up to the entry of run()
InterpretExpression ==
  /\ mode = "idle"
  /\ calls = 0
  /\ \E words \in ExpressionPrograms, nb \in Bases :
       /\ source' = words
       /\ Commit(interpret(VM, compile(Source(words), functions), nb))
  /\ calls' = calls + 1
  /\ UNCHANGED <<strings, objects, compiling>>

NextExpressions ==
  \/ InterpretExpression
  \/ OpConstant
  \/ OpNil
  \/ OpTrue
  \/ OpFalse
  \/ OpEqual
  \/ OpGreater
  \/ OpLess
  \/ OpAdd
  \/ OpSubtract
  \/ OpMultiply
  \/ OpDivide
  \/ OpNot
  \/ OpNegate
  \/ OpPrint
  \/ OpReturn

SpecExpressions == Init /\ [][NextExpressions]_vars

\* ------------------------------------------------- the limits of a function
\*
\* The scope operations applied to a compiler whose arrays are nearly
\* full: a function with 254 or 255 parameters, and a function two levels
\* inside it that has read 254 or 255 of them and can read two locals of the
\* function between.

MaxLimitOperations == 3

\* The i-th parameter's name: x001, x002, ...
Parameter(i) ==
  <<"x", Numeral(i \div 100), Numeral((i \div 10) % 10), Numeral(i % 10)>>

\* The compiler's state after n more parameters of the function being
\* compiled: parseVariable and defineVariable add a local of the function's
\* scope for each
declareParameters(c, n) ==
  [c EXCEPT
     !.parser.previous = IF n = 0 THEN @ ELSE Id(Parameter(n)),
     !.functions[cur(c).function].arity = @ + n,
     !.compilers[Len(c.compilers)].locals =
        @ \o [i \in 1 .. n |->
                [name |-> Parameter(i), depth |-> cur(c).scopeDepth,
                 isCaptured |-> FALSE]]]

\* parseVariable and defineVariable for a parameter called name
declareParameter(c, name) ==
  defineVariable(
    declareVariable([c EXCEPT !.parser.previous = Id(name),
                              !.functions[cur(c).function].arity = @ + 1]),
    0)

\* function() up to its parameters, the function's name being f
beginFunction(c) ==
  beginScope(initCompiler([c EXCEPT !.parser.previous = Id(<<"f">>)],
                          TYPE_FUNCTION))

\* The compiler's state after the innermost function read the first n
\* parameters of the function two levels out, in order: namedVariable
\* marks each captured, gives the function between an upvalue for the
\* local and the innermost one an upvalue for that upvalue, and emits
\* GET_UPVALUE
readParameters(c, n) ==
  LET k == Len(c.compilers)
      between == c.compilers[k - 1].function
      inner == c.compilers[k].function
  IN [c EXCEPT
        !.parser.previous = IF n = 0 THEN @ ELSE Id(Parameter(n)),
        !.compilers[k - 2].locals =
           [i \in 1 .. Len(@) |->
              IF i - 1 \in 1 .. n THEN [@[i] EXCEPT !.isCaptured = TRUE]
              ELSE @[i]],
        !.compilers[k - 1].upvalues =
           [i \in 1 .. n |-> [isLocal |-> TRUE, index |-> i]],
        !.compilers[k].upvalues =
           [i \in 1 .. n |-> [isLocal |-> FALSE, index |-> i - 1]],
        !.functions[between].upvalueCount = n,
        !.functions[inner].upvalueCount = n,
        !.functions[inner].chunk =
           [@ EXCEPT
              !.code = [i \in 1 .. 2 * n |->
                          IF i % 2 = 1 THEN OP_GET_UPVALUE
                          ELSE (i \div 2) - 1],
              !.lines = [i \in 1 .. 2 * n |-> 1],
              !.capacity = grownTo(@, 2 * n)]]

\* fun f(x001, ..., x00n)
ManyParameters(n) ==
  declareParameters(
    beginFunction(advance(compileStart(<<>>, functions))), n)

\* fun f(x001, ..., x255) { fun f(a, b) { fun f() { x001; ...; x00n;
ManyUpvalues(n) ==
  readParameters(
    beginFunction(
      declareParameter(
        declareParameter(
          beginFunction(ManyParameters(UINT8_COUNT - 1)), <<"a">>),
        <<"b">>)),
    n)

InitLimits ==
  /\ Started
  /\ \E n \in {UINT8_COUNT - 2, UINT8_COUNT - 1}, upvalues \in BOOLEAN :
       compiling =
         [c |-> IF upvalues THEN ManyUpvalues(n) ELSE ManyParameters(n),
          operations |-> MaxOperations - MaxLimitOperations,
          operation |-> "function", name |-> <<>>]

SpecLimits == InitLimits /\ [][NextScopes]_vars

\* ------------------------------------------------- the operations of a table

\* The keys of the table's operations.  "a", "i" and "y" have the same hash
\* modulo 8 ("i" and "y" modulo 16 too): "a" and "i" are set, set again and
\* deleted in any order.  The others are only added, in this order.
Colliding == {<<"a">>, <<"i">>}

Added ==
  <<(<<"y">>), (<<"b">>), (<<"c">>), (<<"f">>), (<<"g">>), (<<"l">>),
    (<<"m">>)>>

TableKeys == Colliding \cup {Added[i] : i \in 1 .. Len(Added)}

TableValues(chars) ==
  IF chars = <<"a">> THEN {NUMBER_VAL(1), NUMBER_VAL(2)} ELSE {NUMBER_VAL(1)}

\* A table, the value each key was last set to (NULL when it was never set
\* or was deleted since), and the operation that was last called: what it
\* returned and what the operations on its key before it make it return.
\* `hang` is a probe loop that does not terminate.
Operated(t, last, operation, returned, expected, hang) ==
  [table |-> t, last |-> last, operation |-> operation,
   returned |-> returned, expected |-> expected, hang |-> hang]

InitTable ==
  /\ Started
  /\ compiling = Operated(initTable, [k \in TableKeys |-> NULL], "initTable",
                          NULL, NULL, FALSE)

\* The key can be the next one that is set
InOrder(chars) ==
  \A i \in 2 .. Len(Added) :
    chars = Added[i] => compiling.last[Added[i - 1]] # NULL

CanCall ==
  /\ ~compiling.hang
  /\ UNCHANGED <<stack, stackBase, stackTop, stackCapacity, frames, globals,
                 functions, mode, result, out, err, source, calls, strings,
                 objects>>

TableSet ==
  /\ CanCall
  /\ \E chars \in TableKeys, garbage \in GarbageInts :
       \E value \in TableValues(chars) :
         LET set == tableSet(compiling.table, copyString(chars), value,
                             garbage)
         IN /\ InOrder(chars)
            /\ compiling' =
                 Operated(set.table,
                          IF set.hang THEN compiling.last
                          ELSE [compiling.last EXCEPT ![chars] = value],
                          "tableSet", [bool |-> set.isNewKey],
                          [bool |-> compiling.last[chars] = NULL], set.hang)

TableDelete ==
  /\ CanCall
  /\ \E chars \in Colliding :
       LET deleted == tableDelete(compiling.table, copyString(chars))
       IN compiling' =
            Operated(deleted.table,
                     IF deleted.hang THEN compiling.last
                     ELSE [compiling.last EXCEPT ![chars] = NULL],
                     "tableDelete", [bool |-> deleted.deleted],
                     [bool |-> compiling.last[chars] # NULL], deleted.hang)

TableGet ==
  /\ CanCall
  /\ \E chars \in TableKeys :
       LET got == tableGet(compiling.table, copyString(chars))
       IN compiling' =
            Operated(compiling.table, compiling.last, "tableGet",
                     IF got.found THEN [bool |-> TRUE, value |-> got.value]
                     ELSE [bool |-> FALSE],
                     IF compiling.last[chars] # NULL
                     THEN [bool |-> TRUE, value |-> compiling.last[chars]]
                     ELSE [bool |-> FALSE],
                     got.hang)

NextTable == TableSet \/ TableDelete \/ TableGet

SpecTable == InitTable /\ [][NextTable]_vars

\* -------------------------------------------------------------- properties

\* The compiler wrote a diagnostic to stderr during the last interpret call
CompileErrorReported == \E i \in 1 .. Len(err) : "at" \in DOMAIN err[i]

\* C1: when a compile error was reported for the source text, interpret
\* returned INTERPRET_COMPILER_ERROR and executes no bytecode: the VM is not
\* running the compiled chunk and nothing was printed.
C1_CompileErrorNoExecution ==
  CompileErrorReported =>
    /\ result = "INTERPRET_COMPILER_ERROR"
    /\ mode = "idle"
    /\ out = <<>>

\* The last interpret call has returned
Returned == mode = "idle" /\ calls > 0

\* The number of values on the stack
Height == stackTop - stackBase

\* C2: the chunk of `7;` is the code of 7, one OP_POP and the implicit
\* return, so that the stack is as high after the statement as before it
\* (it holds the script function alone).
C2_ExpressionStatementPops ==
  (source = ExpressionOnly /\ mode = "running" /\ Len(frames) = 1) =>
    /\ chunkOf(frame).code = <<OP_CONSTANT, 0, OP_POP, OP_NIL, OP_RETURN>>
    /\ Instruction = OP_NIL => stackTop = frame.slots + 1

\* C3: while run() executes, the ip of every frame is the start of an
\* instruction of its chunk, as the compiler emitted them.
C3_IpOnInstructionBoundary ==
  mode = "running" =>
    \A i \in 1 .. Len(frames) :
      frames[i].ip \in disassembleChunk(functions, chunkOf(frames[i]), 0)

\* C4: the counter program prints 1 then 2 and returns INTERPRET_OK.
C4_ClosureCounts ==
  (source = Counter /\ Returned) =>
    /\ result = "INTERPRET_OK"
    /\ out = <<NUMBER_VAL(1), NUMBER_VAL(2)>>

\* C5: `var x = 1; { var x = 2; print x; } print x;` prints 2 then 1, at top
\* level, in a block, and in a block after another statement.
C5_ShadowingEndsWithBlock ==
  (source \in {Shadow, ShadowInBlock, ShadowAfterExpression} /\ Returned) =>
    out = <<NUMBER_VAL(2), NUMBER_VAL(1)>>

\* C6: `print true and 2;` and `print nil or 2;` each print 2, the value of
\* the deciding operand, and compile without a diagnostic.
C6_LogicalOperators ==
  (source \in {PrintAnd, PrintOr} /\ Returned) =>
    /\ out = <<NUMBER_VAL(2)>>
    /\ ~CompileErrorReported

\* The bindings of a table: the name and the value of each live entry
Bindings(t) ==
  {<<t.entries[i].key.chars, t.entries[i].value>> :
     i \in {j \in DOMAIN t.entries : t.entries[j].key # NULL}}

Bound(t, chars) == \E b \in Bindings(t) : b[1] = chars

\* The message of a runtime error is among what was written to stderr
Reported(stderr, message) == \E i \in 1 .. Len(stderr) : stderr[i] = message

\* The step is a run() that returns INTERPRET_RUNTIME_ERROR after `message`
RuntimeErrorStep(message) ==
  /\ mode' = "idle"
  /\ result' = "INTERPRET_RUNTIME_ERROR"
  /\ Reported(err', message)

\* C7: OP_GET_GLOBAL or OP_SET_GLOBAL of a name with no binding in
\* vm.globals is a runtime error that names the variable, and leaves the name
\* unbound and every other binding as it was.
C7_UndefinedGlobal ==
  [][(/\ Instruction \in {OP_GET_GLOBAL, OP_SET_GLOBAL}
      /\ IS_STRING(Constant)
      /\ ~Bound(globals, Constant.obj.chars))
     => /\ RuntimeErrorStep(UndefinedVariable(Constant.obj))
        /\ Bindings(globals') = Bindings(globals)]_vars

\* C8: a run() that reports a runtime error returns with the stack empty and
\* no frame, whatever the depth, and keeps the globals bound; the interpret
\* call after it keeps them too and enters run() with the script function
\* alone on the stack, in slot 0 of the one frame.
C8_RuntimeErrorResets ==
  [][/\ (mode = "running" /\ result' = "INTERPRET_RUNTIME_ERROR")
        => /\ mode' = "idle"
           /\ stackTop' = stackBase'
           /\ frames' = <<>>
           /\ Bindings(globals) \subseteq Bindings(globals')
     /\ (mode = "idle" /\ result = "INTERPRET_RUNTIME_ERROR"
           /\ calls' = calls + 1)
        => /\ globals' = globals
           /\ mode' = "running"
           /\ stackTop' = stackBase' + 1
           /\ Len(frames') = 1
           /\ frames'[1].slots = stackBase'
           /\ frames'[1].ip = 0
           /\ isObjType(stack'[0], "OBJ_FUNCTION")
           /\ stack'[0].obj.id = frames'[1].function]_vars

\* After a runtime error in the first call (y is undefined), the second call
\* prints the global a that the first one defined.
C8_Witness ==
  /\ calls = 2
  /\ source = PrintGlobals
  /\ out = <<NUMBER_VAL(1)>>

\* C9: frameCount is within 0 .. FRAMES_MAX and the stack holds between 0
\* and STACK_MAX values, in every state.
C9_StackWithinBounds ==
  /\ Len(frames) \in 0 .. FRAMES_MAX
  /\ Height \in 0 .. STACK_MAX

\* The callee of the OP_CALL about to execute
Callee == Load(VM, stackTop - 1 - Operand)

\* C10: OP_CALL is a runtime error, and pushes no frame, when the callee is
\* neither a function nor a native ("Can only call functions and classes."),
\* when its arity is not the argument count ("Expected N arguments but got
\* M.") and when frameCount is FRAMES_MAX ("Stack overflow.").
C10_CallErrors ==
  [][(Instruction = OP_CALL /\ Callee # UNINIT)
     => /\ (~isObjType(Callee, "OBJ_FUNCTION")
             /\ ~isObjType(Callee, "OBJ_NATIVE"))
           => /\ RuntimeErrorStep(
                   [format |-> "Can only call functions and classes.",
                    args |-> <<>>])
              /\ frames' = <<>>
        /\ (isObjType(Callee, "OBJ_FUNCTION")
             /\ functions[Callee.obj.id].arity # Operand)
           => /\ RuntimeErrorStep(
                   [format |-> "Expected %d arguments but got %d.",
                    args |-> <<functions[Callee.obj.id].arity, Operand>>])
              /\ frames' = <<>>
        /\ (isObjType(Callee, "OBJ_FUNCTION")
             /\ functions[Callee.obj.id].arity = Operand
             /\ Len(frames) = FRAMES_MAX)
           => /\ RuntimeErrorStep([format |-> "Stack overflow.",
                                   args |-> <<>>])
              /\ frames' = <<>>]_vars


\* slots[0] of the frame run() executes holds the function of that frame
TopFrameHoldsCallee ==
  (mode = "running" /\ frames # <<>>) =>
    /\ isObjType(Load(VM, frame.slots), "OBJ_FUNCTION")
    /\ Load(VM, frame.slots).obj.id = frame.function

\* The step CALL argc takes when the callee is a function of arity argc and
\* fewer than FRAMES_MAX frames are active
CallPushesFrame ==
  (/\ Instruction = OP_CALL
   /\ isObjType(Callee, "OBJ_FUNCTION")
   /\ functions[Callee.obj.id].arity = Operand
   /\ Len(frames) < FRAMES_MAX)
  => /\ Len(frames') = Len(frames) + 1
     /\ SubSeq(frames', 1, Len(frames))
          = [frames EXCEPT ![Len(frames)].ip = @ + 2]
     /\ frames'[Len(frames')] = [function |-> Callee.obj.id, ip |-> 0,
                                 slots |-> stackTop - Operand - 1]
     /\ stack' = stack /\ stackTop' = stackTop /\ stackBase' = stackBase
     /\ mode' = "running"
     /\ Load(VM, frames'[Len(frames')].slots) = Callee

\* C11: a CALL argc of a function of arity argc with fewer than 64 frames
\* pushes exactly one frame, with ip at the start of the callee's code and
\* slots = stack_top - argc - 1, so that slots[0] is the callee; and while a
\* frame is active the top frame's slots[0] holds its callee.
C11_CallPushesFrame == [][CallPushesFrame /\ TopFrameHoldsCallee']_vars

\* The value on top of the stack
Top == Load(VM, stackTop - 1)

\* The step RETURN takes
ReturnStep ==
  Instruction = OP_RETURN =>
    IF Len(frames) = 1
    THEN /\ mode' = "idle"
         /\ result' = "INTERPRET_OK"
         /\ frames' = <<>>
         /\ stackTop' - stackBase' = Height - 2
    ELSE /\ mode' = "running"
         /\ Len(frames') = Len(frames) - 1
         /\ \A i \in 1 .. Len(frames') :
              /\ frames'[i].function = frames[i].function
              /\ frames'[i].ip = frames[i].ip
              /\ frames'[i].slots - stackBase' = frames[i].slots - stackBase
         /\ LET caller == frames[Len(frames) - 1]
                code == chunkOf(caller).code
                callee == frame.slots - stackBase
            IN /\ caller.ip >= 2
               /\ code[caller.ip - 1] = OP_CALL
               /\ stackTop' - stackBase' = callee + 1
               /\ stack'[callee] = Top
               /\ \A i \in 0 .. callee - 1 : stack'[i] = stack[i]

SameStack(v, w, delta) ==
  LET height == v.stackTop - v.stackBase
  IN /\ w.stackTop - w.stackBase = height + delta
     /\ Len(w.frames) = Len(v.frames)
     /\ \A i \in 1 .. Len(v.frames) :
          w.frames[i].slots - w.stackBase = v.frames[i].slots - v.stackBase
     /\ \A i \in 0 .. height - 1 :
          i < height + delta => (i < w.stackCapacity /\ w.stack[i] = v.stack[i])
     /\ w.stackCapacity >= height + delta
     /\ DOMAIN w.stack = 0 .. w.stackCapacity - 1

PushKeepsStack(v, newBase) ==
  LET height == v.stackTop - v.stackBase
      w == push(v, NIL_VAL, newBase)
  IN (height \in 0 .. STACK_MAX - 1) =>
       /\ SameStack(v, w, 1)
       /\ w.stack[height] = NIL_VAL
       /\ w.stackCapacity =
            IF v.stackCapacity >= height + 1 THEN v.stackCapacity
            ELSE IF v.stackCapacity < 8 THEN 8 ELSE 2 * v.stackCapacity

PopKeepsStack(v, newBase) ==
  LET height == v.stackTop - v.stackBase
      p == pop(v, newBase)
  IN (height \in 1 .. STACK_MAX) =>
       /\ SameStack(v, p.v, -1)
       /\ p.value = v.stack[height - 1]
       /\ p.v.stackCapacity \in {v.stackCapacity, v.stackCapacity \div 2}

\* C13: when push grows or pop shrinks the stack's storage, stackTop and
\* every active frame's slots keep their stack index, the live slots keep
\* their values and the capacity is at least the number of live slots;
\* growth doubles the capacity, starting from 8.
C13_ReallocationKeepsStack ==
  \A nb \in Bases : PushKeepsStack(VM, nb) /\ PopKeepsStack(VM, nb)

\* A stack that has grown to 16 slots and will shrink at the next pop
C13_Witness ==
  /\ stackCapacity = 16
  /\ Height = 7
  /\ frames # <<>>
  /\ mode = "running"

\* The operand below the top of the stack
Second == Load(VM, stackTop - 2)

OperandsMustBeNumbersOrStrings ==
  [format |-> "Operands must be two numbers or two strings.", args |-> <<>>]

\* The step ADD takes on two operands
AddStep ==
  (Instruction = OP_ADD /\ Height >= 2) =>
    IF IS_NUMBER(Second) /\ IS_NUMBER(Top)
    THEN /\ stackTop' - stackBase' = Height - 1
         /\ stack'[Height - 2] = NUMBER_VAL(Second.number + Top.number)
         /\ mode' = "running"
    ELSE IF IS_STRING(Second) /\ IS_STRING(Top)
    THEN /\ stackTop' - stackBase' = Height - 1
         /\ IS_STRING(stack'[Height - 2])
         /\ stack'[Height - 2].obj.chars = Second.obj.chars \o Top.obj.chars
         /\ stack'[Height - 2].obj = copyString(stack'[Height - 2].obj.chars)
         /\ mode' = "running"
    ELSE /\ RuntimeErrorStep(OperandsMustBeNumbersOrStrings)
         /\ stackTop' = stackBase'

EqualStep ==
  (Instruction = OP_EQUAL /\ Height >= 2) =>
    /\ mode' = "running"
    /\ stackTop' - stackBase' = Height - 1
    /\ stack'[Height - 2] = BOOL_VAL(Second = Top)

\* C15: EQUAL pushes true iff its operands have the same tag and the same
\* payload: nil equals nil, values of different types are never equal, strings
\* are equal iff their characters are, and other objects iff they are the
\* same object.
C15_Equal == [][EqualStep]_vars

\* The keys of a table
Keys(t) ==
  {t.entries[i].key : i \in {j \in 0 .. t.capacity - 1 :
                               t.entries[j].key # NULL}}

\* C16: the intern table holds at most one string per content, and
\* tableFindString with the characters, length and hash of a string of the
\* table returns that string, whatever its hash and whatever lies on its
\* probe path.
C16_InternTable ==
  /\ \A a, b \in Keys(strings) : a.chars = b.chars => a = b
  /\ \A key \in Keys(strings) :
       tableFindString(strings, key.chars, Len(key.chars), key.hash)
         = [key |-> key, hang |-> FALSE]

\* The loop compiled by SpecJumps: the code between the operand of its
\* exit jump and the POP behind the loop, and between the operand of its
\* LOOP and the start of the chunk
forwardDistance == (compiling.count - 3) - 4

backwardDistance == (compiling.count - 3) - 0

LongJump ==
  /\ compiling # NULL
  /\ compiling.compiled
  /\ forwardDistance > UINT16_MAX \/ backwardDistance > UINT16_MAX

\* One of the two operands of the loop is not the distance it stands for
TruncatedJump ==
  \/ compiling.exitJump # forwardDistance
  \/ compiling.loop # backwardDistance

\* C17: when the code a forward jump skips or a loop jumps back over
\* exceeds 65535 bytes, the compilation is a compile error, so that a jump
\* with a truncated operand is never executed.
C17_LongJumpFailsCompilation ==
  LongJump =>
    /\ compiling.function = NULL
    /\ compiling.result = "INTERPRET_COMPILER_ERROR"
    /\ compiling.mode = "idle"

\* C18: when the chunk of one function needs more than 256 constants that
\* are referenced through one-byte operands, the compiler reports "Too many
\* constants" and the compilation fails; so the one-byte constant operands
\* that are emitted are the pool indices at which their constants were
\* stored.
C18_ConstantLimit ==
  (compiling # NULL /\ compiling.compiled) =>
    /\ compiling.count > UINT8_COUNT =>
         /\ \E i \in 1 .. Len(compiling.stderr) :
              compiling.stderr[i].message = "Too many constants in one chunk"
         /\ compiling.function = NULL
         /\ compiling.result = "INTERPRET_COMPILER_ERROR"
    /\ compiling.function # NULL => compiling.operands = compiling.stored

\* C19: a function declared with `fun` calls itself by name from its own
\* body, its arguments bound to its parameters and each call's result
\* returned to its own caller: the run of
\* `fun fib(n){ if (n<2) return n; return fib(n-1)+fib(n-2); } print fib(10);`
\* prints 55 and nothing else.
C19_Recursion ==
  (source = Fib /\ Returned) =>
    /\ out = <<NUMBER_VAL(55)>>
    /\ err = <<>>
    /\ result = "INTERPRET_OK"

\* C20: a `return` statement of the top-level script is a compile error
\* with the message "Can't return from top-level code.": the message is
\* reported and the source is not run.  The same statement in the body of
\* a function is accepted: nothing is reported for it.
C20_ReturnFromScript ==
  /\ source = ReturnFromScript =>
       /\ \E i \in 1 .. Len(err) :
            /\ "at" \in DOMAIN err[i]
            /\ err[i].message = "Can't return from top-level code."
       /\ result = "INTERPRET_COMPILER_ERROR"
       /\ mode = "idle"
       /\ out = <<>>
  /\ source = Fib => ~CompileErrorReported

\* The parser stands where synchronize stops
AtSynchronizationPoint(c) ==
  \/ c.parser.current.type = "TOKEN_EOF"
  \/ c.parser.previous.type = "TOKEN_SEMICOLON"
  \/ c.parser.current.type \in SyncTokens

RECURSIVE advanceTimes(_, _)
advanceTimes(c, k) == IF k = 0 THEN c ELSE advance(advanceTimes(c, k - 1))

\* The least number of calls of advance that bring the parser to a
\* synchronization point
Skipped(c) ==
  CHOOSE k \in 0 .. Len(c.tokens) + 1 :
    /\ AtSynchronizationPoint(advanceTimes(c, k))
    /\ \A j \in 0 .. k - 1 : ~AtSynchronizationPoint(advanceTimes(c, j))

\* One declaration: `c` before it, `b` at its test of panicMode, `d` after it
PanicStep(c, b, d) ==
  /\ Len(b.stderr) <= Len(c.stderr) + 1
  /\ b.parser.panicMode =>
       /\ ~d.parser.panicMode
       /\ AtSynchronizationPoint(d)
       /\ d.pos = advanceTimes(b, Skipped(b)).pos
  /\ ~b.parser.panicMode => d = b
  /\ (~c.parser.panicMode /\ b.parser.panicMode) =>
       Len(b.stderr) = Len(c.stderr) + 1

\* C21: from the first reported error of a declaration to its call of
\* synchronize no further diagnostic is printed; synchronize clears the
\* panic mode and skips tokens until the parser stands behind a `;`, before
\* one of class fun var for if while print return, or at the end, and the
\* first error of the next declaration is reported again.
C21_PanicMode ==
  [][compiling # NULL /\ compiling' # NULL
       => PanicStep(compiling.c, compiling'.before, compiling'.c)]_vars

\* SET_LOCAL and SET_GLOBAL of a defined variable store the top of the stack
\* in the variable and leave the stack as it is
AssignStep ==
  /\ (Instruction = OP_SET_LOCAL /\ Height >= 1
        /\ InStack(VM, frame.slots + Operand)) =>
       /\ mode' = "running"
       /\ stackTop' = stackTop
       /\ stackBase' = stackBase
       /\ stack'[Height - 1] = Top
       /\ stack'[frame.slots + Operand - stackBase] = Top
  /\ (Instruction = OP_SET_GLOBAL /\ Height >= 1 /\ IS_STRING(Constant)
        /\ Bound(globals, Constant.obj.chars)) =>
       /\ mode' = "running"
       /\ stackTop' = stackTop
       /\ stack' = stack
       /\ \A b \in Bindings(globals') :
            b[1] = Constant.obj.chars => b[2] = Top

\* C22: an assignment is an expression whose value is the assigned value:
\* SET_LOCAL, SET_GLOBAL and SET_UPVALUE store the top of the stack in the
\* variable and leave it on the stack.  `var a = 1; print a = 2; print a;`
\* prints 2 twice, and so does the same with a local; the counter of
\* Counter, which assigns to a captured variable, counts.
C22_Assignment ==
  [][/\ AssignStep
     /\ (source' = Assign /\ Returned') =>
          out' = <<NUMBER_VAL(2), NUMBER_VAL(2), NUMBER_VAL(2), NUMBER_VAL(2)>>
     /\ (source' = Counter /\ Returned') =>
          out' = <<NUMBER_VAL(1), NUMBER_VAL(2)>>]_vars

\* The VM takes the jump of the chunk, or its LOOP, and lands where the
\* compiler stood
JumpStep ==
  (compiling # NULL /\ compiling.phase = "run") =>
    /\ (\/ Instruction = OP_JUMP
        \/ Instruction = OP_JUMP_IF_FALSE /\ isFalsey(Top)) =>
         /\ mode' = "running"
         /\ frames'[Len(frames')].ip = compiling.target
    /\ Instruction = OP_LOOP =>
         /\ mode' = "running"
         /\ frames'[Len(frames')].ip = compiling.loopStart

\* patchJump writes the distance with its high byte first
PatchStep ==
  (compiling # NULL /\ compiling.phase = "patch") =>
    LET code == currentChunk(compiling'.c).code
        distance == compiling'.target - compiling.offset - 2
    IN /\ code[compiling.offset + 1] = distance \div 256
       /\ code[compiling.offset + 2] = distance % 256
       /\ compiling'.c.stderr = <<>>

C24_LocalSlots ==
  (source \in {ShadowInBlock, ShadowAfterExpression}
     /\ Instruction = OP_GET_LOCAL) =>
    Load(VM, frame.slots + Operand) = NUMBER_VAL(Operand)

\* ------------------------------------------------------------ C25 .. C28

\* The function compiled by compilers[m] declares a local called name
HasLocal(c, m, name) ==
  \E i \in 1 .. Len(c.compilers[m].locals) :
    c.compilers[m].locals[i].name = name

\* The index (from 0) of the innermost local called name in compilers[m]
LastLocal(c, m, name) ==
  CHOOSE i \in 0 .. Len(c.compilers[m].locals) - 1 :
    /\ c.compilers[m].locals[i + 1].name = name
    /\ \A j \in i + 1 .. Len(c.compilers[m].locals) - 1 :
         c.compilers[m].locals[j + 1].name # name

\* The enclosing functions of compilers[k] that declare name
Declaring(c, name) ==
  {m \in 1 .. Len(c.compilers) - 1 : HasLocal(c, m, name)}

Nearest(c, name) ==
  CHOOSE j \in Declaring(c, name) : \A m \in Declaring(c, name) : m <= j

\* The last n bytes of the current chunk
Emitted(c, n) ==
  SubSeq(currentChunk(c).code, chunkCount(c) - n + 1, chunkCount(c))

\* upvalueCount is the length of the upvalue array and no entry is there
\* twice
UpvaluesDistinct(c) ==
  \A m \in 1 .. Len(c.compilers) :
    LET ups == c.compilers[m].upvalues
    IN /\ c.functions[c.compilers[m].function].upvalueCount = Len(ups)
       /\ \A i, j \in 1 .. Len(ups) : ups[i] = ups[j] => i = j

\* The entry compilers[m] holds for a variable its parent reaches as
\* `through`: the parent's local for the function immediately inside the
\* declaring one, the parent's upvalue further in
Entry(j, idx, u, m) ==
  IF m = j + 1 THEN [isLocal |-> TRUE, index |-> idx]
  ELSE [isLocal |-> FALSE, index |-> u[m - 1]]

\* namedVariable(name) took the compiler from c to d
UpvalueStep(c, d, name) ==
  LET k == Len(c.compilers)
      j == Nearest(c, name)
      idx == LastLocal(c, j, name)
      Chain(u) ==
        /\ \A m \in j + 1 .. k :
             LET before == c.compilers[m].upvalues
                 after == d.compilers[m].upvalues
                 entry == Entry(j, idx, u, m)
             IN /\ u[m] < Len(after)
                /\ after[u[m] + 1] = entry
                /\ IF \E i \in 1 .. Len(before) : before[i] = entry
                   THEN after = before
                   ELSE after = Append(before, entry)
        /\ Emitted(d, 2) = <<OP_GET_UPVALUE, u[k]>>
        /\ chunkCount(d) = chunkCount(c) + 2
  IN ~HasLocal(c, k, name) =>
       /\ UpvaluesDistinct(d)
       /\ d.stderr = c.stderr
       /\ IF Declaring(c, name) = {}
          THEN /\ Emitted(d, 2)[1] = OP_GET_GLOBAL
               /\ d.compilers = c.compilers
          ELSE /\ d.compilers[j].locals[idx + 1].isCaptured
               /\ \E u \in [j + 1 .. k -> 0 .. MaxOperations] : Chain(u)
               /\ \A m \in 1 .. j : d.compilers[m].upvalues =
                                      c.compilers[m].upvalues

\* C25: an identifier that is not a local of the current function resolves
\* to the nearest enclosing function that declares it: that local is marked
\* captured, the function immediately inside it holds {index = the local's
\* index, isLocal = true}, every function further in down to the current
\* one holds {index = its parent's upvalue index, isLocal = false}, and
\* GET_UPVALUE with the current function's index is emitted; an entry that
\* is already there is reused and nothing is added; an identifier no
\* enclosing function declares is compiled as GET_GLOBAL.
C25_ResolveUpvalue ==
  [][(compiling # NULL /\ compiling' # NULL
        /\ compiling'.operation = "namedVariable") =>
       UpvalueStep(compiling.c, compiling'.c, compiling'.name)]_vars

\* Three nested functions, the innermost one has read the script's block
\* local twice
C25_Witness ==
  /\ compiling # NULL
  /\ compiling.operation = "namedVariable"
  /\ Len(compiling.c.compilers) = 3
  /\ Len(compiling.c.compilers[1].locals) = 2
  /\ compiling.c.compilers[1].locals[2].isCaptured
  /\ compiling.c.compilers[2].upvalues = <<[isLocal |-> TRUE, index |-> 1]>>
  /\ compiling.c.compilers[3].upvalues = <<[isLocal |-> FALSE, index |-> 0]>>
  /\ currentChunk(compiling.c).code =
       <<OP_GET_UPVALUE, 0, OP_GET_UPVALUE, 0>>

Diagnostic(c, message) ==
  [line |-> c.parser.previous.line, at |-> c.parser.previous.lexeme,
   message |-> message]

\* What error(message) does to stderr: one more line, unless the parser is
\* already in panic mode
Reports(c, d, message) ==
  d.stderr = IF c.parser.panicMode THEN c.stderr
             ELSE Append(c.stderr, Diagnostic(d, message))

Upvalues(c) == [m \in 1 .. Len(c.compilers) |-> c.compilers[m].upvalues]

\* namedVariable(name) took the compiler from c to d, name being a local
\* of the current function
ReadLocalStep(c, d, name) ==
  LET k == Len(c.compilers)
      idx == LastLocal(c, k, name)
  IN HasLocal(c, k, name) =>
       /\ Emitted(d, 2) = <<OP_GET_LOCAL, idx>>
       /\ Upvalues(d) = Upvalues(c)
       /\ IF cur(c).locals[idx + 1].depth = -1
          THEN Reports(c, d,
                 "Can't read local variable in its own initializer")
          ELSE d.stderr = c.stderr

\* defineVariable took the compiler from c to d in a local scope
DefineStep(c, d) ==
  /\ cur(d).locals[localCount(d)].depth = cur(c).scopeDepth
  /\ d = [c EXCEPT !.compilers[Len(c.compilers)].locals[localCount(c)].depth
                     = cur(c).scopeDepth]

\* C27: a local read inside its own initializer (its depth is -1) is
\* reported with "Can't read local variable in its own initializer" and is
\* not resolved to a variable of an enclosing scope or function; after
\* defineVariable its depth is the scope depth and reads resolve to it
\* without a diagnostic.
C27_OwnInitializer ==
  [][(compiling # NULL /\ compiling' # NULL) =>
       /\ compiling'.operation = "namedVariable" =>
            ReadLocalStep(compiling.c, compiling'.c, compiling'.name)
       /\ compiling'.operation = "defineVariable" =>
            DefineStep(compiling.c, compiling'.c)]_vars

\* { var a; { var a = a;  read in the initializer of the inner a
C27_Witness ==
  /\ compiling # NULL
  /\ compiling.operation = "namedVariable"
  /\ Len(compiling.c.compilers) = 1
  /\ cur(compiling.c).scopeDepth = 2
  /\ localCount(compiling.c) = 3
  /\ cur(compiling.c).locals[2] =
       [name |-> <<"a">>, depth |-> 1, isCaptured |-> FALSE]
  /\ cur(compiling.c).locals[3] =
       [name |-> <<"a">>, depth |-> -1, isCaptured |-> FALSE]
  /\ Emitted(compiling.c, 2) = <<OP_GET_LOCAL, 2>>
  /\ Len(compiling.c.stderr) = 1
  /\ compiling.c.stderr[1].message =
       "Can't read local variable in its own initializer"

\* A local of the current scope is called name
Duplicate(c, name) ==
  \E i \in 1 .. localCount(c) :
    /\ cur(c).locals[i].name = name
    /\ cur(c).locals[i].depth = cur(c).scopeDepth

\* declareVariable took the compiler from c to d
DeclareStep(c, d, name) ==
  /\ cur(d).locals =
       Append(cur(c).locals,
              [name |-> name, depth |-> -1, isCaptured |-> FALSE])
  /\ IF Duplicate(c, name)
     THEN Reports(c, d, "Already a variable with same name in this scope.")
     ELSE d.stderr = c.stderr

\* C28: declaring a local whose name a local of the same scope already has
\* (a parameter redeclared at the top of the function's body included) is
\* reported with "Already a variable with same name in this scope."; the
\* same name in a nested scope is accepted without a diagnostic, and the
\* new local is the one later reads resolve to.
C28_DuplicateLocal ==
  [][(compiling # NULL /\ compiling' # NULL
        /\ compiling'.operation = "declareVariable") =>
       DeclareStep(compiling.c, compiling'.c, compiling'.name)]_vars

\* fun f(a) { var a  the parameter redeclared in the body
C28_Witness ==
  /\ compiling # NULL
  /\ compiling.operation = "declareVariable"
  /\ Len(compiling.c.compilers) = 2
  /\ cur(compiling.c).scopeDepth = 1
  /\ localCount(compiling.c) = 3
  /\ cur(compiling.c).locals[2] =
       [name |-> <<"a">>, depth |-> 1, isCaptured |-> FALSE]
  /\ cur(compiling.c).locals[3].name = <<"a">>
  /\ Len(compiling.c.stderr) = 1
  /\ compiling.c.stderr[1].message =
       "Already a variable with same name in this scope."

\* C26: endScope removes the locals of the scope it closes and emits one
\* instruction for each, the last declared first, CLOSE_UPVALUE for a
\* captured local and POP for another, so that at run time the stack is as
\* high after the block as before it: when the script reaches its implicit
\* return after the block it holds the script function alone.
C26_EndScope ==
  (source \in {ShadowInBlock, BlockCapture} /\ mode = "running"
     /\ Len(frames) = 1) =>
    /\ source = BlockCapture =>
         chunkOf(frame).code =
           <<OP_CONSTANT, 0, OP_CONSTANT, 1, OP_CLOSURE, 2, 1, 1, 1, 2,
             OP_POP, OP_CLOSE_UPVALUE, OP_CLOSE_UPVALUE, OP_NIL, OP_RETURN>>
    /\ Instruction = OP_NIL => stackTop = frame.slots + 1

\* Lox's truth: nil and false are falsey, every other value is truthy
Truthy(condition) == condition \notin {"false", "nil"}

\* What `if (condition) print 1; [else print 2;] print 3;` prints
IfPrints(condition, else) ==
  (IF Truthy(condition) THEN <<NUMBER_VAL(1)>>
   ELSE IF else THEN <<NUMBER_VAL(2)>> ELSE <<>>) \o <<NUMBER_VAL(3)>>

\* run() is about to execute the script's implicit return: the stack holds
\* the script function and the nil to return
AtScriptReturn ==
  mode = "running" /\ Len(frames) = 1 /\ Instruction = OP_RETURN

Counted(n) == [i \in 1 .. n |-> NUMBER_VAL(i - 1)]

\* C30: `var i = 0; while (i < n) { print i; i = i + 1; }` evaluates the
\* condition before each iteration, runs the body once for each truthy
\* evaluation and leaves at the first falsey one: it prints 0 .. n-1, and
\* after the loop the condition's value has been popped and the stack is as
\* high as before the loop.
C30_While ==
  \A n \in 0 .. MaxIterations :
    (source = WhileProgram(n) /\ AtScriptReturn) =>
      /\ out = Counted(n)
      /\ err = <<>>
      /\ stackTop = frame.slots + 2

\* What the for programs print: the values of i the body saw, then the i
\* in scope after the loop
ForPrints(n, local) ==
  Counted(n) \o <<NUMBER_VAL(IF local THEN 9 ELSE n)>>

LiteralValue(a) ==
  CASE a = "nil" -> NIL_VAL
    [] a = "false" -> BOOL_VAL(FALSE)
    [] a = "true" -> BOOL_VAL(TRUE)
    [] a = "0" -> NUMBER_VAL(0)
    [] a = "1" -> NUMBER_VAL(1)
    [] a = "2" -> NUMBER_VAL(2)
    [] a = "'a'" -> OBJ_VAL(copyString(<<"a">>))

\* Lox's falsey values
Falsey(value) == value \in {NIL_VAL, BOOL_VAL(FALSE)}

\* The chunk of the script being run
Script == chunkOf(frames[1]).code

\* What the comparison programs print
Negated(a, op, b) ==
  LET x == LiteralValue(a).number
      y == LiteralValue(b).number
  IN CASE op = "!=" -> BOOL_VAL(x # y)
       [] op = "<=" -> BOOL_VAL(~(x > y))
       [] op = ">=" -> BOOL_VAL(~(x < y))

\* C32: `!expr` is the code of expr followed by NOT, so that `print !a;`
\* prints true iff a is nil or false (0 and strings are truthy); `a != b`,
\* `a <= b` and `a >= b` are EQUAL, GREATER and LESS followed by NOT.
C32_Not ==
  AtScriptReturn =>
    /\ \A a \in Literals :
         source = UnaryProgram("!", a) =>
           /\ Script[Len(Script) - 3] = OP_NOT
           /\ out = <<BOOL_VAL(Falsey(LiteralValue(a)))>>
    /\ \A a, b \in {"0", "1", "2"} :
         /\ source = BinaryProgram(a, "!=", b) =>
              /\ SubSeq(Script, 5, 6) = <<OP_EQUAL, OP_NOT>>
              /\ out = <<Negated(a, "!=", b)>>
         /\ source = BinaryProgram(a, "<=", b) =>
              /\ SubSeq(Script, 5, 6) = <<OP_GREATER, OP_NOT>>
              /\ out = <<Negated(a, "<=", b)>>
         /\ source = BinaryProgram(a, ">=", b) =>
              /\ SubSeq(Script, 5, 6) = <<OP_LESS, OP_NOT>>
              /\ out = <<Negated(a, ">=", b)>>

\* The precedence ladder's level of a binary operator
Ladder(op) ==
  CASE op \in {"==", "!="} -> PREC_EQUALITY
    [] op \in {"<", "<=", ">", ">="} -> PREC_COMPARISON
    [] op \in {"+", "-"} -> PREC_TERM
    [] op \in {"*", "/"} -> PREC_FACTOR

\* What an operator applied to operands it does not take yields
Refused == [type |-> "refused"]

\* The value of x op y, Refused when Lox refuses the operands
Apply(op, x, y) ==
  IF x = Refused \/ y = Refused THEN Refused
  ELSE IF op = "==" THEN BOOL_VAL(x = y)
  ELSE IF op = "!=" THEN BOOL_VAL(x # y)
  ELSE IF ~IS_NUMBER(x) \/ ~IS_NUMBER(y) THEN Refused
  ELSE CASE op = "<" -> BOOL_VAL(x.number < y.number)
         [] op = "<=" -> BOOL_VAL(x.number <= y.number)
         [] op = ">" -> BOOL_VAL(x.number > y.number)
         [] op = ">=" -> BOOL_VAL(x.number >= y.number)
         [] op = "+" -> NUMBER_VAL(x.number + y.number)
         [] op = "-" -> NUMBER_VAL(x.number - y.number)
         [] op = "*" -> NUMBER_VAL(x.number * y.number)
         [] op = "/" -> NUMBER_VAL(x.number \div y.number)

\* 8 op1 4 op2 2 by the ladder, operators of one level grouping to the left
Grouped(op1, op2) ==
  IF Ladder(op1) >= Ladder(op2)
  THEN Apply(op2, Apply(op1, NUMBER_VAL(8), NUMBER_VAL(4)), NUMBER_VAL(2))
  ELSE Apply(op1, NUMBER_VAL(8), Apply(op2, NUMBER_VAL(4), NUMBER_VAL(2)))

\* The rules table gives the infix operators the ladder's precedences
RulesFollowLadder ==
  /\ getRule("TOKEN_OR").precedence = PREC_OR
  /\ getRule("TOKEN_AND").precedence = PREC_AND
  /\ \A op \in BinaryOperators :
       getRule(Punctuation[op]).precedence = Ladder(op)
  /\ getRule("TOKEN_LEFT_PAREN").precedence = PREC_CALL

\* print 8 op1 4 op2 2; prints the value the ladder gives, or fails at run
\* time when that grouping applies an operator to a boolean
GroupedAsLadder ==
  \A op1, op2 \in BinaryOperators :
    source = TernaryProgram(op1, op2) =>
      IF Grouped(op1, op2) = Refused
      THEN /\ out = <<>>
           /\ mode = "idle" => result = "INTERPRET_RUNTIME_ERROR"
      ELSE /\ result # "INTERPRET_RUNTIME_ERROR"
           /\ AtScriptReturn => out = <<Grouped(op1, op2)>>

\* C33: the rules table gives every infix operator the precedence of the
\* ladder (or, and, equality, comparison, term, factor, call) and binary
\* operators group to the left: `8 op1 4 op2 2` has the value of
\* (8 op1 4) op2 2 unless op2 binds tighter than op1.
C33_Precedence == RulesFollowLadder /\ GroupedAsLadder

OperandMustBeANumber == [format |-> "Operand must be a number.", args |-> <<>>]

\* The result of a numeric instruction on numbers x and y (y alone for
\* NEGATE)
Numeric(instruction, x, y) ==
  CASE instruction = OP_SUBTRACT -> NUMBER_VAL(x - y)
    [] instruction = OP_MULTIPLY -> NUMBER_VAL(x * y)
    [] instruction = OP_DIVIDE -> NUMBER_VAL(Quotient(x, y))
    [] instruction = OP_GREATER -> BOOL_VAL(x > y)
    [] instruction = OP_LESS -> BOOL_VAL(x < y)
    [] instruction = OP_NEGATE -> NUMBER_VAL(-y)

\* The step a numeric instruction takes
NumericStep ==
  /\ (Instruction \in {OP_SUBTRACT, OP_MULTIPLY, OP_DIVIDE, OP_GREATER,
                       OP_LESS} /\ Height >= 2) =>
       IF IS_NUMBER(Second) /\ IS_NUMBER(Top)
       THEN /\ mode' = "running"
            /\ stackTop' - stackBase' = Height - 1
            /\ stack'[Height - 2] =
                 Numeric(Instruction, Second.number, Top.number)
            /\ err' = err
       ELSE /\ RuntimeErrorStep(OperandsMustBeNumbers)
            /\ stackTop' = stackBase'
            /\ out' = out
  /\ (Instruction = OP_NEGATE /\ Height >= 1) =>
       IF IS_NUMBER(Top)
       THEN /\ mode' = "running"
            /\ stackTop' - stackBase' = Height
            /\ stack'[Height - 1] = Numeric(OP_NEGATE, 0, Top.number)
            /\ err' = err
       ELSE /\ RuntimeErrorStep(OperandMustBeANumber)
            /\ stackTop' = stackBase'
            /\ out' = out

\* C34: SUBTRACT, MULTIPLY, DIVIDE, GREATER, LESS and NEGATE are a runtime
\* error whenever an operand is not a number, and nothing is pushed or
\* printed; on numbers they pop their operands and push one result, a
\* boolean for GREATER and LESS and a number for the others.
C34_NumericOperands == [][NumericStep]_vars

\* `print 1 < 'a';` was refused
C34_Witness ==
  /\ source = BinaryProgram("1", "<", "'a'")
  /\ mode = "idle"
  /\ result = "INTERPRET_RUNTIME_ERROR"
  /\ Reported(err, OperandsMustBeNumbers)
  /\ out = <<>>

\* No function being compiled holds more locals or upvalues than its arrays
WithinArrays(c) ==
  \A m \in 1 .. Len(c.compilers) :
    /\ Len(c.compilers[m].locals) <= UINT8_COUNT
    /\ Len(c.compilers[m].upvalues) <= UINT8_COUNT
    /\ c.functions[c.compilers[m].function].upvalueCount =
         Len(c.compilers[m].upvalues)

\* The index (from 0) of an entry in an upvalue array, -1 when absent
IndexOf(ups, entry) ==
  IF \E i \in 1 .. Len(ups) : ups[i] = entry
  THEN (CHOOSE i \in 1 .. Len(ups) : ups[i] = entry) - 1
  ELSE -1

\* The index of the upvalue compilers[m] holds for local idx of
\* compilers[j], -1 when it holds none
RECURSIVE Position(_, _, _, _)
Position(c, j, idx, m) ==
  IF m = j + 1
  THEN IndexOf(c.compilers[m].upvalues, [isLocal |-> TRUE, index |-> idx])
  ELSE IndexOf(c.compilers[m].upvalues,
               [isLocal |-> FALSE, index |-> Position(c, j, idx, m - 1)])

\* declareVariable(name) took the compiler from c to d
DeclareWithinLimit(c, d, name) ==
  IF localCount(c) = UINT8_COUNT
  THEN /\ cur(d).locals = cur(c).locals
       /\ ~Duplicate(c, name) =>
            Reports(c, d, "Too many local variables in function.")
  ELSE localCount(d) = localCount(c) + 1

\* namedVariable(name) took the compiler from c to d
ReadWithinLimit(c, d, name) ==
  LET k == Len(c.compilers)
      j == Nearest(c, name)
      idx == LastLocal(c, j, name)
  IN IF HasLocal(c, k, name)
     THEN /\ Emitted(d, 2) = <<OP_GET_LOCAL, LastLocal(c, k, name)>>
          /\ LastLocal(c, k, name) < UINT8_COUNT
     ELSE Declaring(c, name) # {} =>
            IF Len(cur(c).upvalues) = UINT8_COUNT
                 /\ Position(c, j, idx, k) = -1
            THEN /\ cur(d).upvalues = cur(c).upvalues
                 /\ Reports(c, d, "Too many closure variables in function.")
            ELSE /\ Position(d, j, idx, k) \in 0 .. UINT8_COUNT - 1
                 /\ Emitted(d, 2) = <<OP_GET_UPVALUE, Position(d, j, idx, k)>>
                 /\ d.stderr = c.stderr

C36_StackEmptyAfterOk ==
  (mode = "idle" /\ result = "INTERPRET_OK") =>
    /\ frames = <<>>
    /\ stackTop = stackBase

\* The instruction starts of the loop compiled by SpecJumps: every offset
\* of the chunk but the operands of its exit jump and of its LOOP
LoopStarts ==
  (0 .. compiling.count - 1)
    \ {2, 3, compiling.count - 5, compiling.count - 4}

\* C37: a chunk that run() executes has every jump land on an instruction
\* start inside it, so that the ip of the frame is within the code whenever
\* an opcode is fetched: in the loop compiled by SpecJumps the exit jump
\* (its operand read, ip = 4) and the LOOP (ip = count - 3) land on
\* instruction starts.
C37_JumpsInsideChunk ==
  (compiling # NULL /\ compiling.compiled /\ compiling.mode = "running") =>
    /\ 4 + compiling.exitJump \in LoopStarts
    /\ (compiling.count - 3) - compiling.loop \in LoopStarts

\* What tableGet returns for the key of these characters, from the
\* operations on the key so far
LastSet(chars) ==
  IF compiling.last[chars] # NULL
  THEN [found |-> TRUE, value |-> compiling.last[chars]]
  ELSE [found |-> FALSE]

\* What tableGet returns for the key, its out-parameter when it returns true
Got(chars) ==
  LET got == tableGet(compiling.table, copyString(chars))
  IN IF got.hang THEN [hang |-> TRUE]
     ELSE IF got.found THEN [found |-> TRUE, value |-> got.value]
     ELSE [found |-> FALSE]

\* C38: after any sequence of tableSet and tableDelete, tableGet of a key
\* returns true with the value of the last tableSet of the key iff that is
\* the most recent operation on the key, and false iff the key was never set
\* or was deleted last; and tableSet returned true iff the key was not
\* present before it (tableDelete iff it was).
C38_TableOperations ==
  /\ ~compiling.hang
  /\ compiling.returned = compiling.expected
  /\ \A chars \in TableKeys : Got(chars) = LastSet(chars)

\* The entries of the table with a key, and its slots that were never used
Live(t) == {i \in 0 .. t.capacity - 1 : t.entries[i].key # NULL}

NeverUsed(t) ==
  {i \in 0 .. t.capacity - 1 :
     t.entries[i].key = NULL /\ IS_NIL(t.entries[i].value)}

LoadStep ==
  LET t == compiling.table
      after == compiling'.table
  IN /\ after.capacity # t.capacity =>
          /\ (t.count + 1) * 4 > t.capacity * 3
          /\ after.capacity = GROW_CAPACITY(t.capacity)
          /\ after.count \in {Cardinality(Live(t)), Cardinality(Live(t)) + 1}
     /\ after.count * 4 <= after.capacity * 3
     /\ after.capacity > 0 => NeverUsed(after) # {}
     /\ ~compiling'.hang

\* C39: tableSet regrows the table to GROW_CAPACITY of its capacity when
\* count + 1 would exceed 75% of the capacity, and the count starts again
\* from the live entries; so count is at most 75% of the capacity after
\* every operation, a slot that was never used exists, and every probe loop
\* terminates.
C39_LoadFactor == [][LoadStep]_vars

\* The size column of the line disassembleInstruction prints
sizeColumn(instruction) ==
  CASE instruction \in {OP_CLOSURE, OP_CONSTANT, OP_DEFINE_GLOBAL,
                        OP_GET_GLOBAL, OP_SET_GLOBAL} -> 2
    [] instruction \in {OP_GET_LOCAL, OP_SET_LOCAL, OP_CALL} -> 2
    [] instruction \in {OP_JUMP, OP_JUMP_IF_FALSE, OP_LOOP} -> 3
    [] OTHER -> 1

\* The lines disassembleInstruction prints for the instruction at the
\* offset: its own, and one more for each operand pair of an OP_CLOSURE
linesPrinted(fns, chunk, offset) ==
  IF chunk.code[offset + 1] = OP_CLOSURE
  THEN 1 + (closureInstruction(fns, chunk, offset) - (offset + 2)) \div 2
  ELSE 1

\* C40: the dump of every compiled chunk has exactly one line per
\* instruction, the size printed on it is the number of bytes by which
\* disassembleInstruction advances the offset, and the dump ends at the
\* count of the code.
C40_DisassemblerSizes ==
  \A id \in DOMAIN functions :
    LET chunk == functions[id].chunk
    IN \A offset \in disassembleChunk(functions, chunk, 0) :
         /\ linesPrinted(functions, chunk, offset) = 1
         /\ sizeColumn(chunk.code[offset + 1])
              = disassembleInstruction(functions, chunk, offset) - offset
         /\ disassembleInstruction(functions, chunk, offset)
              <= Len(chunk.code)
====
